---- MODULE Spec2Model ----
(***************************************************************************)
(* A model of cola's linear-operator algebra (cola/operators.py) and of    *)
(* its GMRES solver (cola/algorithms/gmres.py).                            *)
(*                                                                         *)
(* Numbers.  Real scalars are exact rationals <<n, d>> in lowest terms     *)
(* with d > 0; <<0, 0>> is the value a division by zero produces (nan/inf  *)
(* of the array backend), and it propagates through arithmetic.  A square  *)
(* root is taken exactly; a routine whose next square root is irrational   *)
(* takes no further step in this model.  Complex scalars (used where the   *)
(* code conjugates) are Gaussian integers <<re, im>>.                      *)
(*                                                                         *)
(* Arrays.  A matrix is a sequence of rows.  The code's 0-based indices    *)
(* are kept (jdx, idx); the element at code index i is sequence element    *)
(* i + 1.                                                                  *)
(***************************************************************************)
EXTENDS Integers, Sequences, FiniteSets, TLC

VARIABLES
    pc,         \* position of the routine being run
    \* get_hessenberg_triangular_qr / apply_givens_fwd
    H, R, Gs, jdx, vec,
    \* get_givens_cos_sin
    ga, gb, gdenom, gc, gs,
    \* get_householder_vec and the Householder operator built from its result
    hx, hidx, hsigma, hvec, hbeta, hbranch, hout,
    \* the constructor of a composite operator and its forward-apply:
    \* the class, the arguments, the fields of self, the local variables
    \* shape and loop position, the raised error, the input and the result
    okind, oargs, omults, oself, oshape, oi, oerr, ov, oout,
    \* a SelfAdjoint, PSD or Householder operator: the class, the argument
    \* of the constructor, the operator, the input, the results of the
    \* forward-apply and of the adjoint-apply
    stag, sbase, sop, sX, sfwd, sadj,
    \* gmres: the arguments and the local variables
    mA, mrhs, mx0, mmax_iters, mtol, muse_householder, muse_triangular,
    mres, mQ, mH, mbeta, me1, mR, mGs, mtarget, my, msoln,
    \* run_cg_lanczos and the test that calls it: the arguments, the
    \* preallocated arrays (a sequence of columns or of scalars), the counter
    \* k and the product Aq, the matrix T the test builds, the array indices the last step used
    \* and the number of executions of the loop body so far
    lA, lrhs, lx0, lmax_iters, ltolerance,
    lx, lalpha, lbeta, lk, lres, lq, ldes, ldir, lnu, lgamma,
    lAq, lT, lused, ltrips,
    \* Product._matmat and Product._rmatmat: self.Ms, the argument, the
    \* local variable v, the position of the loop and the operands applied
    \* so far, in the order of their application
    pMs, pX, pv, pidx, plog

varsQR == <<H, R, Gs, jdx, vec>>
varsGivens == <<ga, gb, gdenom, gc, gs>>
varsHH == <<hx, hidx, hsigma, hvec, hbeta, hbranch, hout>>
varsOp == <<okind, oargs, omults, oself, oshape, oi, oerr, ov, oout>>
varsSA == <<stag, sbase, sop, sX, sfwd, sadj>>
varsGm ==
    <<mA, mrhs, mx0, mmax_iters, mtol, muse_householder, muse_triangular,
      mres, mQ, mH, mbeta, me1, mR, mGs, mtarget, my, msoln>>
varsCG ==
    <<lA, lrhs, lx0, lmax_iters, ltolerance,
      lx, lalpha, lbeta, lk, lres, lq, ldes, ldir, lnu, lgamma,
      lAq, lT, lused, ltrips>>
varsProd == <<pMs, pX, pv, pidx, plog>>
vars == <<pc, varsQR, varsGivens, varsHH, varsOp, varsSA, varsGm, varsCG, varsProd>>

None == "none"

\* the variables of a routine that is not running
IdleGivens ==
    /\ ga = None /\ gb = None /\ gdenom = None /\ gc = None /\ gs = None

IdleQR == H = None /\ R = None /\ Gs = None /\ jdx = None /\ vec = None

IdleHH ==
    /\ hx = None /\ hidx = None /\ hsigma = None /\ hvec = None
    /\ hbeta = None /\ hbranch = None /\ hout = None

IdleOp ==
    /\ okind = None /\ oargs = None /\ omults = None /\ oself = None /\ oshape = None
    /\ oi = None /\ oerr = None /\ ov = None /\ oout = None

IdleSA ==
    /\ stag = None /\ sbase = None /\ sop = None /\ sX = None
    /\ sfwd = None /\ sadj = None

IdleGm ==
    /\ mA = None /\ mrhs = None /\ mx0 = None /\ mmax_iters = None /\ mtol = None
    /\ muse_householder = None /\ muse_triangular = None
    /\ mres = None /\ mQ = None /\ mH = None /\ mbeta = None /\ me1 = None
    /\ mR = None /\ mGs = None /\ mtarget = None /\ my = None /\ msoln = None

IdleCG ==
    /\ lA = None /\ lrhs = None /\ lx0 = None /\ lmax_iters = None
    /\ ltolerance = None /\ lx = None /\ lalpha = None /\ lbeta = None
    /\ lk = None /\ lres = None /\ lq = None /\ ldes = None /\ ldir = None
    /\ lnu = None /\ lgamma = None /\ lAq = None /\ lT = None /\ lused = None
    /\ ltrips = None

IdleProd == pMs = None /\ pX = None /\ pv = None /\ pidx = None /\ plog = None

----------------------------------------------------------------------------
(* Bounds of the model *)

\* scalars of the Givens and Householder inputs range over -MaxVal..MaxVal
MaxVal == 4

----------------------------------------------------------------------------
(* Exact rational arithmetic *)

RECURSIVE GCD(_, _)
GCD(a, b) == IF b = 0 THEN a ELSE GCD(b, a % b)

Abs(n) == IF n < 0 THEN -n ELSE n

NaN == <<0, 0>>

IsNaN(x) == x[2] = 0

\* the rational n/d in lowest terms, NaN when d = 0
Frac(n, d) ==
    IF d = 0 THEN NaN
    ELSE LET g == GCD(Abs(n), Abs(d))
             s == IF d < 0 THEN -1 ELSE 1
         IN  <<(s * n) \div g, (s * d) \div g>>

I2Q(n) == <<n, 1>>
Zero == I2Q(0)
One == I2Q(1)

\* over the least common denominator
QAdd(x, y) ==
    IF x[2] = y[2] THEN Frac(x[1] + y[1], x[2])
    ELSE LET g == GCD(x[2], y[2])
         IN  Frac(x[1] * (y[2] \div g) + y[1] * (x[2] \div g), (x[2] \div g) * y[2])
QNeg(x) == <<-x[1], x[2]>>
QSub(x, y) == QAdd(x, QNeg(y))
QMul(x, y) == Frac(x[1] * y[1], x[2] * y[2])
QDiv(x, y) == IF IsNaN(x) \/ IsNaN(y) THEN NaN ELSE Frac(x[1] * y[2], x[2] * y[1])
QSq(x) == QMul(x, x)
\* comparisons are false on NaN
QLt(x, y) == ~IsNaN(x) /\ ~IsNaN(y) /\ x[1] * y[2] < y[1] * x[2]
QLe(x, y) == ~IsNaN(x) /\ ~IsNaN(y) /\ x[1] * y[2] <= y[1] * x[2]
QEq(x, y) == ~IsNaN(x) /\ ~IsNaN(y) /\ x = y
QIsZero(x) == QEq(x, Zero)

\* the integer part of the square root of n >= 0, by Newton's iteration
RECURSIVE NewtonSqrt(_, _)
NewtonSqrt(n, x) ==
    LET y == (x + n \div x) \div 2
    IN  IF y >= x THEN x ELSE NewtonSqrt(n, y)

ISqrt(n) == IF n < 2 THEN n ELSE NewtonSqrt(n, n)
IsSquareInt(n) == n >= 0 /\ ISqrt(n) * ISqrt(n) = n

\* the square root is rational
HasSqrt(x) == IsNaN(x) \/ (IsSquareInt(x[1]) /\ IsSquareInt(x[2]))
QSqrt(x) == IF IsNaN(x) THEN NaN ELSE <<ISqrt(x[1]), ISqrt(x[2])>>

----------------------------------------------------------------------------
(* Dense arrays of rationals *)

NRows(M) == Len(M)
NCols(M) == IF Len(M) = 0 THEN 0 ELSE Len(M[1])

RECURSIVE QSum(_)
QSum(s) == IF Len(s) = 0 THEN Zero ELSE QAdd(s[1], QSum(Tail(s)))

\* A @ B
MatMul(A, B) ==
    [i \in 1..NRows(A) |->
        [j \in 1..NCols(B) |->
            QSum([k \in 1..NCols(A) |-> QMul(A[i][k], B[k][j])])]]

\* A.T
MatT(A) == [j \in 1..NCols(A) |-> [i \in 1..NRows(A) |-> A[i][j]]]

\* xnp.update_array(A, update, [r0, r0 + 1]) with 0-based r0: rows r0 and
\* r0 + 1 of A replaced by the two rows of update
UpdateRows(A, update, r0) ==
    [i \in 1..NRows(A) |->
        IF i = r0 + 1 THEN update[1]
        ELSE IF i = r0 + 2 THEN update[2]
        ELSE A[i]]

\* A[[r0, r0 + 1], :] with 0-based r0
TakeRows(A, r0) == <<A[r0 + 1], A[r0 + 2]>>

----------------------------------------------------------------------------
(* get_givens_cos_sin, gmres.py 83-90 *)

\* a**2. + b**2.
GivensRadicand(a, b) == QAdd(QSq(a), QSq(b))

\* s = b / denom instead of -b / denom
get_givens_cos_sin_bug(a, b) ==
    IF QIsZero(b) THEN <<One, Zero>>
    ELSE LET denom == QSqrt(GivensRadicand(a, b))
         IN  <<QDiv(a, denom), QDiv(b, denom)>>

\* <<c, s>>
get_givens_cos_sin(a, b) ==
    IF QIsZero(b) THEN <<One, Zero>>
    ELSE LET denom == QSqrt(GivensRadicand(a, b))
         IN  <<QDiv(a, denom), QDiv(QNeg(b), denom)>>

\* the square root get_givens_cos_sin takes is exact (or not taken)
GivensExact(a, b) == QIsZero(b) \/ HasSqrt(GivensRadicand(a, b))

\* G = xnp.array([[cx, sx], [-sx, cx]])
GivensMatrix(cs) == <<<<cs[1], cs[2]>>, <<QNeg(cs[2]), cs[1]>>>>

----------------------------------------------------------------------------
(* get_givens_cos_sin as a routine: one step per statement *)

\* the scalars handed to get_givens_cos_sin
MaxDen == 2
GivensInputs == {Frac(n, d) : n \in -MaxVal..MaxVal, d \in 1..MaxDen}

InitGivens ==
    /\ pc = "givens_start"
    /\ ga \in GivensInputs
    /\ gb \in GivensInputs
    /\ gdenom = None /\ gc = None /\ gs = None
    /\ IdleQR /\ IdleHH /\ IdleOp /\ IdleSA /\ IdleGm /\ IdleCG /\ IdleProd

\* if b == 0: c, s = 1, 0
GivensIdentity ==
    /\ pc = "givens_start"
    /\ QIsZero(gb)
    /\ gc' = get_givens_cos_sin(ga, gb)[1]
    /\ gs' = get_givens_cos_sin(ga, gb)[2]
    /\ pc' = "givens_done"
    /\ UNCHANGED <<ga, gb, gdenom>>

\* else: denom = xnp.sqrt(a**2. + b**2.)
GivensDenom ==
    /\ pc = "givens_start"
    /\ ~QIsZero(gb)
    /\ GivensExact(ga, gb)
    /\ gdenom' = QSqrt(GivensRadicand(ga, gb))
    /\ pc' = "givens_divide"
    /\ UNCHANGED <<ga, gb, gc, gs>>

\* s = -b / denom; c = a / denom
GivensDivide ==
    /\ pc = "givens_divide"
    /\ gc' = get_givens_cos_sin(ga, gb)[1]
    /\ gs' = get_givens_cos_sin(ga, gb)[2]
    /\ pc' = "givens_done"
    /\ UNCHANGED <<ga, gb, gdenom>>

NextGivens ==
    \/ GivensIdentity /\ UNCHANGED <<varsQR, varsHH, varsOp, varsSA, varsGm, varsCG, varsProd>>
    \/ GivensDenom /\ UNCHANGED <<varsQR, varsHH, varsOp, varsSA, varsGm, varsCG, varsProd>>
    \/ GivensDivide /\ UNCHANGED <<varsQR, varsHH, varsOp, varsSA, varsGm, varsCG, varsProd>>

----------------------------------------------------------------------------
(* get_hessenberg_triangular_qr, gmres.py 64-73, and apply_givens_fwd,     *)
(* gmres.py 76-80                                                          *)

\* the body of the loop of get_hessenberg_triangular_qr at index j:
\* the rotation G and the updated R
QRRotation(Rm, j) == GivensMatrix(get_givens_cos_sin(Rm[j + 1][j + 1], Rm[j + 2][j + 1]))

\* G @ rows instead of G.T @ rows
QRUpdate_bug(Rm, j) ==
    UpdateRows(Rm, MatMul(QRRotation(Rm, j), TakeRows(Rm, j)), j)

QRUpdate(Rm, j) ==
    UpdateRows(Rm, MatMul(MatT(QRRotation(Rm, j)), TakeRows(Rm, j)), j)

\* the body of the loop of apply_givens_fwd at index j
FwdUpdate(G, v, j) ==
    UpdateRows(v, MatMul(MatT(G[j + 1]), TakeRows(v, j)), j)

\* apply_givens_fwd from loop index j on
RECURSIVE apply_givens_fwd_from(_, _, _)
apply_givens_fwd_from(G, v, j) ==
    IF j >= Len(G) THEN v ELSE apply_givens_fwd_from(G, FwdUpdate(G, v, j), j + 1)

apply_givens_fwd(G, v) == apply_givens_fwd_from(G, v, 0)

\* get_hessenberg_triangular_qr from loop index j on: <<R, Gs>>
RECURSIVE qr_from(_, _, _)
qr_from(Rm, G, j) ==
    IF j >= NRows(Rm) - 1 THEN <<Rm, G>>
    ELSE qr_from(QRUpdate(Rm, j), Append(G, QRRotation(Rm, j)), j + 1)

get_hessenberg_triangular_qr(Hm) == qr_from(Hm, <<>>, 0)

\* Hessenberg inputs: (k+1) x k as the incremental Arnoldi returns them and
\* k x k as the Householder Arnoldi does, zero below the first subdiagonal
MaxK == 2
HVals == {I2Q(-3), Zero, I2Q(4)}
HShapes == {<<k + 1, k>> : k \in 1..MaxK} \cup {<<k, k>> : k \in 1..MaxK}
IsHessenberg(M) ==
    \A i \in 1..NRows(M) : \A j \in 1..NCols(M) : i > j + 1 => QIsZero(M[i][j])
HInputs ==
    UNION {{M \in [1..sh[1] -> [1..sh[2] -> HVals]] : IsHessenberg(M)} : sh \in HShapes}
\* right-hand sides: beta * e1 as gmres builds it, and (1, 2, ..., n)
VecInputs(n) ==
    {[i \in 1..n |-> <<IF i = 1 THEN I2Q(5) ELSE Zero>>], [i \in 1..n |-> <<I2Q(i)>>]}

InitQR ==
    /\ pc = "qr_start"
    /\ H \in HInputs
    /\ R = None /\ Gs = None /\ jdx = None /\ vec = None
    /\ IdleGivens /\ IdleHH /\ IdleOp /\ IdleSA /\ IdleGm /\ IdleCG /\ IdleProd

\* R = xnp.copy(H); Gs = []
QRCopy ==
    /\ pc = "qr_start"
    /\ R' = H
    /\ Gs' = <<>>
    /\ jdx' = 0
    /\ pc' = "qr_loop"
    /\ UNCHANGED <<H, vec>>

\* for jdx in range(H.shape[0] - 1): one rotation
QRStep ==
    /\ pc = "qr_loop"
    /\ jdx < NRows(H) - 1
    /\ GivensExact(R[jdx + 1][jdx + 1], R[jdx + 2][jdx + 1])
    /\ Gs' = Append(Gs, QRRotation(R, jdx))
    /\ R' = QRUpdate(R, jdx)
    /\ jdx' = jdx + 1
    /\ UNCHANGED <<pc, H, vec>>

\* return R, Gs; the caller goes on to apply_givens_fwd(Gs, vec) for a
\* right-hand side vec of its own
QRReturn ==
    /\ pc = "qr_loop"
    /\ jdx = NRows(H) - 1
    /\ vec' \in VecInputs(NRows(H))
    /\ jdx' = 0
    /\ pc' = "fwd_loop"
    /\ UNCHANGED <<H, R, Gs>>

\* for jdx in range(len(Gs)): replay one rotation
FwdStep ==
    /\ pc = "fwd_loop"
    /\ jdx < Len(Gs)
    /\ vec' = FwdUpdate(Gs, vec, jdx)
    /\ jdx' = jdx + 1
    /\ UNCHANGED <<pc, H, R, Gs>>

\* return vec
FwdReturn ==
    /\ pc = "fwd_loop"
    /\ jdx = Len(Gs)
    /\ pc' = "fwd_done"
    /\ UNCHANGED <<H, R, Gs, jdx, vec>>

NextQR ==
    \/ QRCopy /\ UNCHANGED <<varsGivens, varsHH, varsOp, varsSA, varsGm, varsCG, varsProd>>
    \/ QRStep /\ UNCHANGED <<varsGivens, varsHH, varsOp, varsSA, varsGm, varsCG, varsProd>>
    \/ QRReturn /\ UNCHANGED <<varsGivens, varsHH, varsOp, varsSA, varsGm, varsCG, varsProd>>
    \/ FwdStep /\ UNCHANGED <<varsGivens, varsHH, varsOp, varsSA, varsGm, varsCG, varsProd>>
    \/ FwdReturn /\ UNCHANGED <<varsGivens, varsHH, varsOp, varsSA, varsGm, varsCG, varsProd>>

----------------------------------------------------------------------------
(* get_householder_vec, operators.py 36-56, and Householder, 479-490 *)

\* xnp.norm(v)**2. over the reals: the sum of the squares
NormSq(v) == QSum([i \in 1..Len(v) |-> QSq(v[i])])

\* x[k:] with 0-based k
SliceFrom(x, k) == IF k >= Len(x) THEN <<>> ELSE SubSeq(x, k + 1, Len(x))

\* sigma_2 = xnp.norm(x[idx + 1:])**2.
HouseholderSigma2(x, idx) == NormSq(SliceFrom(x, idx + 1))

\* vec = zeros_like(x); vec = update_array(vec, x[idx:], slice(idx, None, None))
HouseholderCopy(x, idx) == [i \in 1..Len(x) |-> IF i >= idx + 1 THEN x[i] ELSE Zero]

\* x[idx] > 0 instead of x[idx] >= 0 in the first test
HouseholderBranch_bug(sigma_2, xi) ==
    IF QIsZero(sigma_2) /\ QLt(Zero, xi) THEN "zero"
    ELSE IF QIsZero(sigma_2) /\ QLt(xi, Zero) THEN "minus2"
    ELSE "general"

\* which arm of the if / elif / else is taken
HouseholderBranch(sigma_2, xi) ==
    IF QIsZero(sigma_2) /\ QLe(Zero, xi) THEN "zero"
    ELSE IF QIsZero(sigma_2) /\ QLt(xi, Zero) THEN "minus2"
    ELSE "general"

\* x_norm_partial = xnp.sqrt(x[idx]**2 + sigma_2)
HouseholderRadicand(sigma_2, xi) == QAdd(QSq(xi), sigma_2)

\* the new vec[idx] of the else arm
HouseholderPivot(sigma_2, xi) ==
    LET x_norm_partial == QSqrt(HouseholderRadicand(sigma_2, xi))
    IN  IF QLe(xi, Zero) THEN QSub(xi, x_norm_partial)
        ELSE QDiv(QNeg(sigma_2), QAdd(xi, x_norm_partial))

\* 2 * vec[idx] instead of 2 * vec[idx]**2
HouseholderBeta_bug(sigma_2, v0) ==
    QDiv(QMul(I2Q(2), v0), QAdd(sigma_2, QSq(v0)))

\* beta = 2 * vec[idx]**2 / (sigma_2 + vec[idx]**2)
HouseholderBeta(sigma_2, v0) ==
    QDiv(QMul(I2Q(2), QSq(v0)), QAdd(sigma_2, QSq(v0)))

\* the else arm: <<vec, beta>>
HouseholderGeneral(x, idx) ==
    LET sigma_2 == HouseholderSigma2(x, idx)
        v0 == HouseholderPivot(sigma_2, x[idx + 1])
        vec1 == [HouseholderCopy(x, idx) EXCEPT ![idx + 1] = v0]
        beta == HouseholderBeta(sigma_2, v0)
        \* vec = vec / vec[idx]
        vec2 == [i \in 1..Len(x) |-> QDiv(vec1[i], vec1[idx + 1])]
        \* vec = update_array(vec, vec[idx:] / vec[idx], slice(idx, None, None))
        vec3 == [i \in 1..Len(x) |->
                    IF i >= idx + 1 THEN QDiv(vec2[i], vec2[idx + 1]) ELSE vec2[i]]
    IN  <<vec3, beta>>

\* <<vec, beta>>
get_householder_vec(x, idx) ==
    LET branch == HouseholderBranch(HouseholderSigma2(x, idx), x[idx + 1])
    IN  IF branch = "zero" THEN <<HouseholderCopy(x, idx), I2Q(0)>>
        ELSE IF branch = "minus2" THEN <<HouseholderCopy(x, idx), I2Q(-2)>>
        ELSE HouseholderGeneral(x, idx)

\* Householder(vec, beta)._matmat(X), vec a column of shape (n, 1)
HouseholderMatmat(v, beta, X) ==
    LET \* angle = xnp.sum(X * self.vec, axis=-2, keepdims=True)
        angle == [j \in 1..NCols(X) |->
                    QSum([i \in 1..NRows(X) |-> QMul(X[i][j], v[i][1])])]
    IN  \* out = X - self.beta * angle * self.vec
        [i \in 1..NRows(X) |->
            [j \in 1..NCols(X) |->
                QSub(X[i][j], QMul(QMul(beta, angle[j]), v[i][1]))]]

\* a 1-D array as a column of shape (n, 1)
Column(x) == [i \in 1..Len(x) |-> <<x[i]>>]

MaxLen == 3
HHVectors == UNION {[1..n -> {I2Q(k) : k \in -MaxVal..MaxVal}] : n \in 1..MaxLen}

InitHH ==
    /\ pc = "hh_start"
    /\ hx \in HHVectors
    /\ hidx \in 0..(Len(hx) - 1)
    /\ hsigma = None /\ hvec = None /\ hbeta = None /\ hbranch = None /\ hout = None
    /\ IdleGivens /\ IdleQR /\ IdleOp /\ IdleSA /\ IdleGm /\ IdleCG /\ IdleProd

\* lines 40-42: sigma_2 and the copy of x[idx:]
HHSigma ==
    /\ pc = "hh_start"
    /\ hsigma' = HouseholderSigma2(hx, hidx)
    /\ hvec' = HouseholderCopy(hx, hidx)
    /\ pc' = "hh_branch"
    /\ UNCHANGED <<hx, hidx, hbeta, hbranch, hout>>

\* lines 43-46: one of the two constant arms
HHConstant ==
    /\ pc = "hh_branch"
    /\ HouseholderBranch(hsigma, hx[hidx + 1]) # "general"
    /\ hbranch' = HouseholderBranch(hsigma, hx[hidx + 1])
    /\ hvec' = get_householder_vec(hx, hidx)[1]
    /\ hbeta' = get_householder_vec(hx, hidx)[2]
    /\ pc' = "hh_done"
    /\ UNCHANGED <<hx, hidx, hsigma, hout>>

\* lines 47-55: the else arm
HHGeneral ==
    /\ pc = "hh_branch"
    /\ HouseholderBranch(hsigma, hx[hidx + 1]) = "general"
    /\ HasSqrt(HouseholderRadicand(hsigma, hx[hidx + 1]))
    /\ hbranch' = "general"
    /\ hvec' = get_householder_vec(hx, hidx)[1]
    /\ hbeta' = get_householder_vec(hx, hidx)[2]
    /\ pc' = "hh_done"
    /\ UNCHANGED <<hx, hidx, hsigma, hout>>

\* Householder(vec, beta) @ x
HHApply ==
    /\ pc = "hh_done"
    /\ hout' = HouseholderMatmat(Column(hvec), hbeta, Column(hx))
    /\ pc' = "hh_applied"
    /\ UNCHANGED <<hx, hidx, hsigma, hvec, hbeta, hbranch>>

NextHH ==
    \/ HHSigma /\ UNCHANGED <<varsQR, varsGivens, varsOp, varsSA, varsGm, varsCG, varsProd>>
    \/ HHConstant /\ UNCHANGED <<varsQR, varsGivens, varsOp, varsSA, varsGm, varsCG, varsProd>>
    \/ HHGeneral /\ UNCHANGED <<varsQR, varsGivens, varsOp, varsSA, varsGm, varsCG, varsProd>>
    \/ HHApply /\ UNCHANGED <<varsQR, varsGivens, varsOp, varsSA, varsGm, varsCG, varsProd>>

----------------------------------------------------------------------------
(* Integer arrays of any rank, as the backend stores them: a shape and the *)
(* elements in row-major order.  An operation the backend rejects (a       *)
(* reshape to another size, a product of unequal inner dimensions, an      *)
(* in-place sum that does not broadcast) gives TErr, and TErr propagates.  *)

RECURSIVE Prod(_)
Prod(s) == IF Len(s) = 0 THEN 1 ELSE s[1] * Prod(Tail(s))

RECURSIVE IntSum(_)
IntSum(s) == IF Len(s) = 0 THEN 0 ELSE s[1] + IntSum(Tail(s))

Tensor(sh, d) == [shape |-> sh, data |-> d]
TErr == Tensor(<<-1>>, <<>>)
IsErr(t) == t.shape = <<-1>>

\* t.reshape(sh)
Reshape(t, sh) ==
    IF IsErr(t) \/ Prod(sh) # Len(t.data) THEN TErr ELSE Tensor(sh, t.data)

\* t.reshape(*lead, -1)
ReshapeInfer(t, lead) ==
    IF IsErr(t) \/ Prod(lead) = 0 THEN TErr
    ELSE IF Len(t.data) % Prod(lead) # 0 THEN TErr
    ELSE Tensor(Append(lead, Len(t.data) \div Prod(lead)), t.data)

\* the row-major stride of axis k (1-based) and the k-th coordinate of the
\* element at 0-based flat position i0
Stride(sh, k) == Prod(SubSeq(sh, k + 1, Len(sh)))
Coord(i0, sh, k) == (i0 \div Stride(sh, k)) % sh[k]

\* xnp.moveaxis(t, src, dst), axes 0-based: the source axis of each axis of
\* the result, then the moved array
MoveAxisOrder(n, src, dst) ==
    [j \in 1..n |->
        IF j = dst + 1 THEN src + 1
        ELSE LET r == IF j < dst + 1 THEN j ELSE j - 1
             IN  IF r < src + 1 THEN r ELSE r + 1]

MoveAxis(t, src, dst) ==
    IF IsErr(t) THEN TErr
    ELSE LET n == Len(t.shape)
             order == MoveAxisOrder(n, src, dst)
             sh == [j \in 1..n |-> t.shape[order[j]]]
         IN  Tensor(sh,
                [i \in 1..Len(t.data) |->
                    t.data[1 + IntSum([j \in 1..n |->
                        Coord(i - 1, sh, j) * Stride(t.shape, order[j])])]])

\* element (i, j), 1-based, of a 2-D array
At(t, i, j) == t.data[(i - 1) * t.shape[2] + j]

\* A @ B for 2-D arrays
TMatMul(A, B) ==
    IF IsErr(A) \/ IsErr(B) THEN TErr
    ELSE IF A.shape[2] # B.shape[1] THEN TErr
    ELSE LET m == A.shape[1]
             p == B.shape[2]
         IN  Tensor(<<m, p>>,
                [e \in 1..(m * p) |->
                    LET i == ((e - 1) \div p) + 1
                        j == ((e - 1) % p) + 1
                    IN  IntSum([k \in 1..A.shape[2] |-> At(A, i, k) * At(B, k, j)])])

\* A.T for a 2-D array
TT(A) ==
    IF IsErr(A) THEN TErr
    ELSE LET m == A.shape[1]
             p == A.shape[2]
         IN  Tensor(<<p, m>>,
                [e \in 1..(m * p) |-> At(A, ((e - 1) % m) + 1, ((e - 1) \div m) + 1)])

\* A + B, equal shapes
TAdd(A, B) ==
    IF IsErr(A) \/ IsErr(B) \/ A.shape # B.shape THEN TErr
    ELSE Tensor(A.shape, [e \in 1..Len(A.data) |-> A.data[e] + B.data[e]])

\* 0 * A
TZeroTimes(A) ==
    IF IsErr(A) THEN TErr ELSE Tensor(A.shape, [e \in 1..Len(A.data) |-> 0 * A.data[e]])

\* v[a:b] along axis 0 of a 2-D array, 0-based a and b
SliceRows(v, a, b) ==
    IF IsErr(v) THEN TErr
    ELSE LET lo == IF a > v.shape[1] THEN v.shape[1] ELSE a
             hi == IF b > v.shape[1] THEN v.shape[1] ELSE b
             n == IF hi > lo THEN hi - lo ELSE 0
         IN  Tensor(<<n, v.shape[2]>>,
                [e \in 1..(n * v.shape[2]) |-> v.data[lo * v.shape[2] + e]])

\* xnp.concatenate(ys, axis=0) of 2-D arrays
RECURSIVE ConcatRows(_)
ConcatRows(ys) ==
    IF Len(ys) = 1 THEN ys[1]
    ELSE LET rest == ConcatRows(Tail(ys))
         IN  IF IsErr(ys[1]) \/ IsErr(rest) THEN TErr
             ELSE IF ys[1].shape[2] # rest.shape[2] THEN TErr
             ELSE Tensor(<<ys[1].shape[1] + rest.shape[1], rest.shape[2]>>,
                         ys[1].data \o rest.data)

\* the shape two shapes of equal rank broadcast to, <<-1>> when they do not
BroadcastShape(a, b) ==
    IF Len(a) # Len(b) THEN <<-1>>
    ELSE IF \E k \in 1..Len(a) : a[k] # b[k] /\ a[k] # 1 /\ b[k] # 1 THEN <<-1>>
    ELSE [k \in 1..Len(a) |-> IF a[k] = 1 THEN b[k] ELSE a[k]]

\* t read at the shape sh it broadcasts to
BroadcastTo(t, sh) ==
    Tensor(sh,
        [i \in 1..Prod(sh) |->
            t.data[1 + IntSum([k \in 1..Len(sh) |->
                (IF t.shape[k] = 1 THEN 0 ELSE Coord(i - 1, sh, k)) * Stride(t.shape, k)])]])

\* out += term.  numpy and torch add in place, so term must broadcast to
\* the shape of out; jax rebinds out to out + term, which broadcasts both.
Backends == {"np_fns", "torch_fns", "jax_fns"}
InPlaceAdd(out, term, xnp) ==
    IF IsErr(out) \/ IsErr(term) THEN TErr
    ELSE LET sh == BroadcastShape(out.shape, term.shape)
         IN  IF sh = <<-1>> THEN TErr
             ELSE IF xnp # "jax_fns" /\ sh # out.shape THEN TErr
             ELSE TAdd(BroadcastTo(out, sh), BroadcastTo(term, sh))

----------------------------------------------------------------------------
(* Operators, operators.py.  An operand is a Dense operator.               *)

\* Dense(A), lines 11-13
Dense(A, dtype) == [kind |-> "Dense", A |-> A, shape |-> A.shape, dtype |-> dtype]

\* Dense._matmat, lines 15-16
DenseMatmat(M, X) == TMatMul(M.A, X)

\* Dense._rmatmat, lines 18-19
DenseRmatmat(M, X) == TMatMul(X, M.A)

\* Dense.to_dense
DenseToDense(M) == M.A

\* product(c), lines 151-152
product(c) == Prod(c)

Rows(M) == M.shape[1]
Cols(M) == M.shape[2]

\* Sum._matmat, lines 131-132: sum(M @ v for M in self.Ms)
RECURSIVE SumMatmatFrom(_, _, _, _)
SumMatmatFrom(Ms, v, i, acc) ==
    IF i > Len(Ms) THEN acc
    ELSE SumMatmatFrom(Ms, v, i + 1, TAdd(acc, DenseMatmat(Ms[i], v)))

SumMatmat(op, v) == SumMatmatFrom(op.Ms, v, 2, DenseMatmat(op.Ms[1], v))

\* Product._matmat, lines 105-108: for M in self.Ms[::-1]: v = M @ v
RECURSIVE ProductMatmatFrom(_, _, _)
ProductMatmatFrom(Ms, v, i) ==
    IF i < 1 THEN v ELSE ProductMatmatFrom(Ms, DenseMatmat(Ms[i], v), i - 1)

ProductMatmat(op, v) == ProductMatmatFrom(op.Ms, v, Len(op.Ms))

\* the axis is not moved back after the operand is applied
ModeProduct_bug(M, ev, i) ==
    LET ev_front == MoveAxis(ev, i, 0)
    IN  IF IsErr(ev_front) THEN TErr
        ELSE Reshape(DenseMatmat(M, ReshapeInfer(ev_front, <<Cols(M)>>)),
                     <<Rows(M)>> \o Tail(ev_front.shape))

\* the body of the loops of Kronecker._matmat and KronSum._matmat, lines
\* 167-169 and 202-204: operand M applied along axis i (0-based) of ev
ModeProduct(M, ev, i) ==
    LET ev_front == MoveAxis(ev, i, 0)
    IN  IF IsErr(ev_front) THEN TErr
        ELSE MoveAxis(
                Reshape(DenseMatmat(M, ReshapeInfer(ev_front, <<Cols(M)>>)),
                        <<Rows(M)>> \o Tail(ev_front.shape)),
                0, i)

\* Kronecker._matmat, lines 164-171
RECURSIVE KroneckerLoop(_, _, _)
KroneckerLoop(Ms, ev, i) ==
    IF i >= Len(Ms) THEN ev ELSE KroneckerLoop(Ms, ModeProduct(Ms[i + 1], ev, i), i + 1)

KroneckerMatmat(op, v) ==
    LET ev == KroneckerLoop(op.Ms, ReshapeInfer(v, [k \in 1..Len(op.Ms) |-> Cols(op.Ms[k])]), 0)
    IN  IF IsErr(ev) THEN TErr ELSE Reshape(ev, <<op.shape[1], ev.shape[Len(ev.shape)]>>)

\* xnp.kron(A, B) of two 2-D arrays: the block matrix whose block (i1, j1)
\* is A[i1, j1] * B
Kron(A, B) ==
    LET rB == B.shape[1]
        cB == B.shape[2]
        m == A.shape[1] * rB
        n == A.shape[2] * cB
    IN  Tensor(<<m, n>>,
            [e \in 1..(m * n) |->
                LET i0 == (e - 1) \div n
                    j0 == (e - 1) % n
                IN  At(A, (i0 \div rB) + 1, (j0 \div cB) + 1)
                        * At(B, (i0 % rB) + 1, (j0 % cB) + 1)])

\* Kronecker.to_dense, lines 173-175: reduce(self.ops.kron, Ms) over the
\* dense operands
RECURSIVE KronReduce(_, _, _)
KronReduce(Ms, acc, i) ==
    IF i > Len(Ms) THEN acc ELSE KronReduce(Ms, Kron(acc, DenseToDense(Ms[i])), i + 1)

KroneckerToDense(op) == KronReduce(op.Ms, DenseToDense(op.Ms[1]), 2)

\* KronSum._matmat, lines 197-206
RECURSIVE KronSumLoop(_, _, _, _, _)
KronSumLoop(Ms, ev, out, i, xnp) ==
    IF i >= Len(Ms) THEN out
    ELSE KronSumLoop(Ms, ev, InPlaceAdd(out, ModeProduct(Ms[i + 1], ev, i), xnp), i + 1, xnp)

KronSumMatmat(op, v, xnp) ==
    LET ev == ReshapeInfer(v, [k \in 1..Len(op.Ms) |-> Cols(op.Ms[k])])
        out == KronSumLoop(op.Ms, ev, TZeroTimes(ev), 0, xnp)
    IN  IF IsErr(ev) THEN TErr ELSE Reshape(out, <<op.shape[1], ev.shape[Len(ev.shape)]>>)

\* BlockDiag._matmat, lines 227-238
RECURSIVE BlockDiagLoop(_, _, _, _, _)
BlockDiagLoop(Ms, mults, v, n, i) ==
    IF n > Len(Ms) \/ n > Len(mults) THEN <<>>
    ELSE LET M == Ms[n]
             multiplicity == mults[n]
             k == v.shape[2]
             i_end == i + multiplicity * Cols(M)
             elems == DenseMatmat(M,
                        TT(Reshape(TT(SliceRows(v, i, i_end)), <<k * multiplicity, Cols(M)>>)))
             y == TT(Reshape(TT(elems), <<k, multiplicity * Rows(M)>>))
         IN  <<y>> \o BlockDiagLoop(Ms, mults, v, n + 1, i_end)

\* the multiplicities are not used: every operand once
BlockDiagMatmat_bug(op, v) ==
    IF IsErr(v) THEN TErr
    ELSE ConcatRows(BlockDiagLoop(op.Ms, [n \in 1..Len(op.Ms) |-> 1], v, 1, 0))

BlockDiagMatmat(op, v) ==
    IF IsErr(v) THEN TErr ELSE ConcatRows(BlockDiagLoop(op.Ms, op.multiplicities, v, 1, 0))

\* BlockDiag.to_dense, lines 241-242: Ms_all, every operand as often as its
\* multiplicity, dense
RECURSIVE MsAll(_, _, _)
MsAll(Ms, mults, n) ==
    IF n > Len(Ms) \/ n > Len(mults) THEN <<>>
    ELSE [c \in 1..mults[n] |-> DenseToDense(Ms[n])] \o MsAll(Ms, mults, n + 1)

\* the rows and the columns before the b-th block
RowOffset(blocks, b) == IntSum([t \in 1..(b - 1) |-> blocks[t].shape[1]])
ColOffset(blocks, b) == IntSum([t \in 1..(b - 1) |-> blocks[t].shape[2]])

\* xnp.block_diag(*blocks), line 243: the blocks along the diagonal, zero
\* elsewhere
block_diag(blocks) ==
    LET m == RowOffset(blocks, Len(blocks) + 1)
        p == ColOffset(blocks, Len(blocks) + 1)
    IN  Tensor(<<m, p>>,
            [e \in 1..(m * p) |->
                LET i == ((e - 1) \div p) + 1
                    j == ((e - 1) % p) + 1
                    b == CHOOSE t \in 1..Len(blocks) :
                            RowOffset(blocks, t) < i /\ i <= RowOffset(blocks, t + 1)
                IN  IF ColOffset(blocks, b) < j /\ j <= ColOffset(blocks, b + 1)
                    THEN At(blocks[b], i - RowOffset(blocks, b), j - ColOffset(blocks, b))
                    ELSE 0])

BlockDiagToDense(op) == block_diag(MsAll(op.Ms, op.multiplicities, 1))

\* op @ v for a constructed composite operator
Matmat(op, v, xnp) ==
    CASE op.kind = "Sum" -> SumMatmat(op, v)
      [] op.kind = "Product" -> ProductMatmat(op, v)
      [] op.kind = "Kronecker" -> KroneckerMatmat(op, v)
      [] op.kind = "KronSum" -> KronSumMatmat(op, v, xnp)
      [] op.kind = "BlockDiag" -> BlockDiagMatmat(op, v)

----------------------------------------------------------------------------
(* The constructors of the composite operators, one step per statement,    *)
(* and forward-apply of the constructed operator                           *)

\* a field of self that has not been assigned
Unset == <<>>
UnsetDtype == "unset"
NewSelf(kind) ==
    [kind |-> kind, Ms |-> Unset, multiplicities |-> Unset, shape |-> Unset,
     dtype |-> UnsetDtype]

\* Sum.__init__, line 126: M.shape != shape
SumMismatchAt_bug(Ms, shape, i) == Ms[i].shape[1] # shape[1]

SumMismatchAt(Ms, shape, i) == Ms[i].shape # shape

\* Product.__init__, line 99: M1.shape[-1] != M2.shape[-2] for the i-th pair
\* of zip(Ms[:-1], Ms[1:])
ProductMismatchAt(Ms, i) == Cols(Ms[i]) # Rows(Ms[i + 1])

\* the number of turns of the validating loop
CtorLoopLen(kind, Ms) ==
    CASE kind = "Sum" -> Len(Ms)
      [] kind = "Product" -> Len(Ms) - 1
      [] OTHER -> 0

CtorMismatchAt(kind, Ms, shape, i) ==
    CASE kind = "Sum" -> SumMismatchAt(Ms, shape, i)
      [] kind = "Product" -> ProductMismatchAt(Ms, i)
      [] OTHER -> FALSE

\* self.multiplicities, line 222
DefaultMultiplicities(Ms, mults) ==
    IF mults = Unset THEN [k \in 1..Len(Ms) |-> 1] ELSE mults

\* the shape handed to LinearOperator.__init__: lines 101, 124, 160, 193
\* and 223-224
CompositeShape(kind, Ms, mults) ==
    CASE kind = "Sum" -> Ms[1].shape
      [] kind = "Product" -> <<Rows(Ms[1]), Cols(Ms[Len(Ms)])>>
      [] kind \in {"Kronecker", "KronSum"} ->
            <<product([k \in 1..Len(Ms) |-> Rows(Ms[k])]),
              product([k \in 1..Len(Ms) |-> Cols(Ms[k])])>>
      [] kind = "BlockDiag" ->
            <<IntSum([k \in 1..Len(Ms) |-> Rows(Ms[k]) * mults[k]]),
              IntSum([k \in 1..Len(Ms) |-> Cols(Ms[k]) * mults[k]])>>

\* operands and inputs: every shape and dtype, the entries fixed by the
\* shape and a seed
MaxOps == 2
MaxDim == 2
MaxMult == 2
MaxBatch == 2
Dtypes == {"float32", "float64"}
Kinds == {"Sum", "Product", "Kronecker", "KronSum", "BlockDiag"}

GenArray(r, c, seed) ==
    Tensor(<<r, c>>, [e \in 1..(r * c) |-> (((seed + 2) * e + seed) % 5) - 2])

Operands ==
    {Dense(GenArray(r, c, r + 2 * c), d) : r \in 1..MaxDim, c \in 1..MaxDim, d \in Dtypes}

OperandLists == UNION {[1..k -> Operands] : k \in 1..MaxOps}

InitOp(kinds) ==
    /\ pc = "ctor_start"
    /\ okind \in kinds
    /\ oargs \in OperandLists
    /\ omults \in IF okind = "BlockDiag"
                  THEN {Unset} \cup [1..Len(oargs) -> 1..MaxMult]
                  ELSE {Unset}
    /\ oself = NewSelf(okind)
    /\ oshape = Unset /\ oi = 0 /\ oerr = None /\ ov = None /\ oout = None
    /\ IdleGivens /\ IdleQR /\ IdleHH /\ IdleSA /\ IdleGm /\ IdleCG /\ IdleProd

InitCtor == InitOp({"Sum", "Product"})
InitOps == InitOp(Kinds)
\* Kronecker products of operands of one dtype
InitKron == InitOp({"Kronecker"}) /\ \A i \in 1..Len(oargs) : oargs[i].dtype = oargs[1].dtype

\* block-diagonal operators of operands of one dtype, of at most MaxSize
\* rows and columns
MaxSize == 5

InitBlock ==
    /\ InitOp({"BlockDiag"})
    /\ \A i \in 1..Len(oargs) : oargs[i].dtype = oargs[1].dtype
    /\ \E shape \in {CompositeShape(okind, oargs, DefaultMultiplicities(oargs, omults))} :
            shape[1] <= MaxSize /\ shape[2] <= MaxSize

\* shape and dtype assigned together with Ms, before the validation
CtorSetMs_bug ==
    /\ pc = "ctor_start"
    /\ oself' = [oself EXCEPT !.Ms = oargs,
                              !.shape = CompositeShape(okind, oargs, DefaultMultiplicities(oargs, omults)),
                              !.dtype = oargs[1].dtype]
    /\ oshape' = IF okind = "Sum" THEN oargs[1].shape ELSE Unset
    /\ oi' = 1
    /\ pc' = "ctor_validate"
    /\ UNCHANGED <<okind, oargs, omults, oerr, ov, oout>>

\* self.Ms = Ms (lines 97, 123, 159, 192, 221), self.multiplicities (222),
\* and for Sum the local shape = Ms[0].shape (124)
CtorSetMs ==
    /\ pc = "ctor_start"
    /\ oself' = [oself EXCEPT !.Ms = oargs,
                              !.multiplicities =
                                  IF okind = "BlockDiag"
                                  THEN DefaultMultiplicities(oargs, omults) ELSE Unset]
    /\ oshape' = IF okind = "Sum" THEN oargs[1].shape ELSE Unset
    /\ oi' = 1
    /\ pc' = "ctor_validate"
    /\ UNCHANGED <<okind, oargs, omults, oerr, ov, oout>>

\* one turn of the validating loop of Sum or Product that finds no mismatch
CtorCheck ==
    /\ pc = "ctor_validate"
    /\ oi <= CtorLoopLen(okind, oargs)
    /\ ~CtorMismatchAt(okind, oargs, oshape, oi)
    /\ oi' = oi + 1
    /\ UNCHANGED <<pc, okind, oargs, omults, oself, oshape, oerr, ov, oout>>

\* raise ValueError(f"dimension mismatch ...")
CtorRaise ==
    /\ pc = "ctor_validate"
    /\ oi <= CtorLoopLen(okind, oargs)
    /\ CtorMismatchAt(okind, oargs, oshape, oi)
    /\ oerr' = "ValueError: dimension mismatch"
    /\ pc' = "ctor_raised"
    /\ UNCHANGED <<okind, oargs, omults, oself, oshape, oi, ov, oout>>

\* shape = ...; dtype = Ms[0].dtype; super().__init__(dtype, shape)
CtorSuper ==
    /\ pc = "ctor_validate"
    /\ oi > CtorLoopLen(okind, oargs)
    /\ oshape' = CompositeShape(okind, oargs, DefaultMultiplicities(oargs, omults))
    /\ oself' = [oself EXCEPT !.shape = oshape', !.dtype = oargs[1].dtype]
    /\ pc' = "constructed"
    /\ UNCHANGED <<okind, oargs, omults, oi, oerr, ov, oout>>

\* op @ v for an input of the operator's own column count
OpApply ==
    /\ pc = "constructed"
    /\ \E b \in 1..MaxBatch, xnp \in Backends :
        /\ ov' = GenArray(oself.shape[2], b, 1)
        /\ oout' = Matmat(oself, ov', xnp)
    /\ pc' = "applied"
    /\ UNCHANGED <<okind, oargs, omults, oself, oshape, oi, oerr>>

NextCtor ==
    \/ CtorSetMs /\ UNCHANGED <<varsQR, varsGivens, varsHH, varsSA, varsGm, varsCG, varsProd>>
    \/ CtorCheck /\ UNCHANGED <<varsQR, varsGivens, varsHH, varsSA, varsGm, varsCG, varsProd>>
    \/ CtorRaise /\ UNCHANGED <<varsQR, varsGivens, varsHH, varsSA, varsGm, varsCG, varsProd>>
    \/ CtorSuper /\ UNCHANGED <<varsQR, varsGivens, varsHH, varsSA, varsGm, varsCG, varsProd>>

NextOps ==
    \/ NextCtor
    \/ OpApply /\ UNCHANGED <<varsQR, varsGivens, varsHH, varsSA, varsGm, varsCG, varsProd>>

NextKron ==
    \/ CtorSetMs /\ UNCHANGED <<varsQR, varsGivens, varsHH, varsSA, varsGm, varsCG, varsProd>>
    \/ CtorSuper /\ UNCHANGED <<varsQR, varsGivens, varsHH, varsSA, varsGm, varsCG, varsProd>>
    \/ OpApply /\ UNCHANGED <<varsQR, varsGivens, varsHH, varsSA, varsGm, varsCG, varsProd>>

----------------------------------------------------------------------------
(* Product._matmat and Product._rmatmat, operators.py 105-113, one step    *)
(* per turn of the loop                                                    *)

MaxChain == 3

\* the operand lists Product.__init__ accepts (lines 98-100), of one dtype
ProductChains ==
    {Ms \in UNION {[1..k -> Operands] : k \in 1..MaxChain} :
        /\ \A i \in 1..(Len(Ms) - 1) : ~ProductMismatchAt(Ms, i)
        /\ \A i \in 1..Len(Ms) : Ms[i].dtype = Ms[1].dtype}

\* self.Ms taken from its first operand on
ProductMatmatOrder_bug(Ms) == [j \in 1..Len(Ms) |-> j]

\* self.Ms[::-1], line 106: the position in self.Ms of the operand of the
\* j-th turn
ProductMatmatOrder(Ms) == [j \in 1..Len(Ms) |-> Len(Ms) + 1 - j]

\* self.Ms, line 111
ProductRmatmatOrder(Ms) == [j \in 1..Len(Ms) |-> j]

InitProd ==
    /\ pc = "prod_start"
    /\ pMs \in ProductChains
    /\ pX = None /\ pv = None /\ pidx = 0 /\ plog = <<>>
    /\ IdleGivens /\ IdleQR /\ IdleHH /\ IdleOp /\ IdleSA /\ IdleGm /\ IdleCG

\* self._matmat(X) for an X of shape (cols(Mk), b)
ProdMatmatCall ==
    /\ pc = "prod_start"
    /\ \E b \in 1..MaxBatch : pX' = GenArray(Cols(pMs[Len(pMs)]), b, 1)
    /\ pv' = pX'
    /\ pidx' = 1
    /\ pc' = "prod_matmat"
    /\ UNCHANGED <<pMs, plog>>

\* one turn of the loop of lines 106-107: v = M @ v
ProdMatmatTurn ==
    /\ pc = "prod_matmat"
    /\ pidx <= Len(pMs)
    /\ \E n \in {ProductMatmatOrder(pMs)[pidx]} :
        /\ pv' = DenseMatmat(pMs[n], pv)
        /\ plog' = Append(plog, n)
    /\ pidx' = pidx + 1
    /\ UNCHANGED <<pc, pMs, pX>>

\* return v, line 108
ProdMatmatReturn ==
    /\ pc = "prod_matmat"
    /\ pidx > Len(pMs)
    /\ pc' = "prod_matmat_done"
    /\ UNCHANGED varsProd

\* self._rmatmat(X) for an X of shape (b, rows(M1))
ProdRmatmatCall ==
    /\ pc = "prod_start"
    /\ \E b \in 1..MaxBatch : pX' = GenArray(b, Rows(pMs[1]), 1)
    /\ pv' = pX'
    /\ pidx' = 1
    /\ pc' = "prod_rmatmat"
    /\ UNCHANGED <<pMs, plog>>

\* one turn of the loop of lines 111-112: v = v @ M
ProdRmatmatTurn ==
    /\ pc = "prod_rmatmat"
    /\ pidx <= Len(pMs)
    /\ \E n \in {ProductRmatmatOrder(pMs)[pidx]} :
        /\ pv' = DenseRmatmat(pMs[n], pv)
        /\ plog' = Append(plog, n)
    /\ pidx' = pidx + 1
    /\ UNCHANGED <<pc, pMs, pX>>

\* return v, line 113
ProdRmatmatReturn ==
    /\ pc = "prod_rmatmat"
    /\ pidx > Len(pMs)
    /\ pc' = "prod_rmatmat_done"
    /\ UNCHANGED varsProd

NextProd ==
    \/ ProdMatmatCall /\ UNCHANGED <<varsQR, varsGivens, varsHH, varsOp, varsSA, varsGm, varsCG>>
    \/ ProdMatmatTurn /\ UNCHANGED <<varsQR, varsGivens, varsHH, varsOp, varsSA, varsGm, varsCG>>
    \/ ProdMatmatReturn /\ UNCHANGED <<varsQR, varsGivens, varsHH, varsOp, varsSA, varsGm,
            varsCG>>
    \/ ProdRmatmatCall /\ UNCHANGED <<varsQR, varsGivens, varsHH, varsOp, varsSA, varsGm,
            varsCG>>
    \/ ProdRmatmatTurn /\ UNCHANGED <<varsQR, varsGivens, varsHH, varsOp, varsSA, varsGm,
            varsCG>>
    \/ ProdRmatmatReturn /\ UNCHANGED <<varsQR, varsGivens, varsHH, varsOp, varsSA, varsGm,
            varsCG>>

----------------------------------------------------------------------------
(* The SelfAdjoint property, operators.py 428-490, over real and complex    *)
(* dtypes.  A complex scalar is <<re, im>> with integer parts; an array of  *)
(* a real dtype has every imaginary part 0.  A 2-D array is a sequence of   *)
(* rows.                                                                   *)

CAdd(x, y) == <<x[1] + y[1], x[2] + y[2]>>
CSub(x, y) == <<x[1] - y[1], x[2] - y[2]>>
CMul(x, y) == <<x[1] * y[1] - x[2] * y[2], x[1] * y[2] + x[2] * y[1]>>
Conj(x) == <<x[1], -x[2]>>

RECURSIVE CSum(_)
CSum(s) == IF Len(s) = 0 THEN <<0, 0>> ELSE CAdd(s[1], CSum(Tail(s)))

\* A @ B
CMatMul(A, B) ==
    [i \in 1..NRows(A) |->
        [j \in 1..NCols(B) |->
            CSum([k \in 1..NCols(A) |-> CMul(A[i][k], B[k][j])])]]

\* xnp.conj(A)
CMatConj(A) == [i \in 1..NRows(A) |-> [j \in 1..NCols(A) |-> Conj(A[i][j])]]

\* Dense(A), lines 11-13, for an array of the given dtype
DenseComplex(A, dtype) ==
    [kind |-> "Dense", A |-> A, shape |-> <<NRows(A), NCols(A)>>, dtype |-> dtype]

\* SelfAdjoint(A), lines 431-435: self.A, self._matmat = self.A._matmat,
\* the dtype and the shape of A
SelfAdjoint(A) == [kind |-> "SelfAdjoint", A |-> A, shape |-> A.shape, dtype |-> A.dtype]

\* PSD(A), lines 465-469: a SelfAdjoint under another name
PSD(A) == [SelfAdjoint(A) EXCEPT !.kind = "PSD"]

\* Householder(vec, beta), lines 480-483, vec of shape (n, 1)
Householder(v, beta, dtype) ==
    [kind |-> "Householder", vec |-> v, beta |-> beta,
     shape |-> <<NRows(v), NRows(v)>>, dtype |-> dtype]

\* Householder._matmat, lines 485-490, for a complex dtype: vec is not
\* conjugated
HouseholderMatmatComplex(v, beta, X) ==
    LET angle == [j \in 1..NCols(X) |->
                    CSum([i \in 1..NRows(X) |-> CMul(X[i][j], v[i][1])])]
    IN  [i \in 1..NRows(X) |->
            [j \in 1..NCols(X) |->
                CSub(X[i][j], CMul(CMul(beta, angle[j]), v[i][1]))]]

\* op._matmat(X)
RECURSIVE OperatorMatmat(_, _)
OperatorMatmat(op, X) ==
    CASE op.kind = "Dense" -> CMatMul(op.A, X)
      [] op.kind = "Householder" -> HouseholderMatmatComplex(op.vec, op.beta, X)
      [] op.kind \in {"SelfAdjoint", "PSD"} -> OperatorMatmat(op.A, X)

\* the outer conj is left out
SelfAdjointRmatmat_bug(op, X) == MatT(OperatorMatmat(op, MatT(CMatConj(X))))

\* the inner conj is left out
SelfAdjointRmatmat_noconj(op, X) == MatT(CMatConj(OperatorMatmat(op, MatT(X))))

\* SelfAdjoint._rmatmat, lines 439-440
SelfAdjointRmatmat(op, X) == MatT(CMatConj(OperatorMatmat(op, MatT(CMatConj(X)))))

\* op._rmatmat(X): Dense has its own (lines 18-19), Householder and PSD
\* inherit SelfAdjoint's
OperatorRmatmat(op, X) ==
    IF op.kind = "Dense" THEN CMatMul(X, op.A) ELSE SelfAdjointRmatmat(op, X)

\* the arrays the operators are built from and applied to: entries fixed by
\* the shape, a seed and the dtype
MaxSeed == 2
ComplexDtypes == {"float64", "complex128"}

GenEntry(seed, e) == (((seed + 2) * e + seed) % 5) - 2

GenComplex(r, c, seed, dtype) ==
    [i \in 1..r |->
        [j \in 1..c |->
            LET e == (i - 1) * c + j
            IN  <<GenEntry(seed, e),
                  IF dtype = "complex128" THEN GenEntry(seed + 1, e) ELSE 0>>]]

\* M + M^H, a Hermitian matrix (symmetric when M is real)
Hermitian(M) == [i \in 1..NRows(M) |-> [j \in 1..NCols(M) |-> CAdd(M[i][j], Conj(M[j][i]))]]

DenseBases ==
    {DenseComplex(GenComplex(r, c, s, d), d) :
        r \in 1..MaxDim, c \in 1..MaxDim, s \in 0..MaxSeed, d \in ComplexDtypes}
    \cup {DenseComplex(Hermitian(GenComplex(n, n, s, d)), d) :
        n \in 1..MaxDim, s \in 0..MaxSeed, d \in ComplexDtypes}

\* beta: the default 2. of the constructor and the constants 0. and -2. of
\* get_householder_vec
HouseholderArgs ==
    {[vec |-> GenComplex(n, 1, s, d), beta |-> b, dtype |-> d] :
        n \in 1..MaxDim, s \in 0..MaxSeed, d \in ComplexDtypes,
        b \in {<<2, 0>>, <<0, 0>>, <<-2, 0>>}}

InitSA ==
    /\ pc = "sa_start"
    /\ stag \in {"SelfAdjoint", "PSD", "Householder"}
    /\ sbase \in IF stag = "Householder" THEN HouseholderArgs ELSE DenseBases
    /\ sop = None /\ sX = None /\ sfwd = None /\ sadj = None
    /\ IdleGivens /\ IdleQR /\ IdleHH /\ IdleOp /\ IdleGm /\ IdleCG /\ IdleProd

\* the constructor
SAConstruct ==
    /\ pc = "sa_start"
    /\ sop' = CASE stag = "SelfAdjoint" -> SelfAdjoint(sbase)
                [] stag = "PSD" -> PSD(sbase)
                [] stag = "Householder" -> Householder(sbase.vec, sbase.beta, sbase.dtype)
    /\ pc' = "sa_constructed"
    /\ UNCHANGED <<stag, sbase, sX, sfwd, sadj>>

\* forward-apply on an input X of shape (n, b)
SAForward ==
    /\ pc = "sa_constructed"
    /\ \E b \in 1..MaxBatch, s \in 0..MaxSeed, d \in ComplexDtypes :
        /\ sX' = GenComplex(sop.shape[2], b, s, d)
        /\ sfwd' = OperatorMatmat(sop, sX')
    /\ pc' = "sa_forward"
    /\ UNCHANGED <<stag, sbase, sop, sadj>>

\* adjoint-apply on the same input, laid out as the rows of X.T
SAAdjoint ==
    /\ pc = "sa_forward"
    /\ sadj' = OperatorRmatmat(sop, MatT(sX))
    /\ pc' = "sa_done"
    /\ UNCHANGED <<stag, sbase, sop, sX, sfwd>>

NextSA ==
    \/ SAConstruct /\ UNCHANGED <<varsQR, varsGivens, varsHH, varsOp, varsGm, varsCG, varsProd>>
    \/ SAForward /\ UNCHANGED <<varsQR, varsGivens, varsHH, varsOp, varsGm, varsCG, varsProd>>
    \/ SAAdjoint /\ UNCHANGED <<varsQR, varsGivens, varsHH, varsOp, varsGm, varsCG, varsProd>>

----------------------------------------------------------------------------
(* The Arnoldi iteration.  cola/algorithms/arnoldi.py is not part of the    *)
(* sources at hand; the two routines gmres calls are modelled from the      *)
(* specification's section 4.3 (the recurrence, the early stop of the       *)
(* incremental variant, the full iteration count of the Householder         *)
(* variant) and from the shapes gmres relies on: the incremental variant    *)
(* returns Q with k + 1 columns and H of shape (k + 1, k), the Householder  *)
(* variant Q with k columns and H of shape (k, k).  Vectors are sequences   *)
(* of rationals.                                                           *)

Dot(u, w) == QSum([i \in 1..Len(u) |-> QMul(u[i], w[i])])

\* A @ w for a vector w
MatVec(A, w) == [i \in 1..NRows(A) |-> Dot(A[i], w)]

\* w / nrm, and zero for a zero norm (the NaN-shielding rule)
ShieldedScale(w, nrm) ==
    [i \in 1..Len(w) |-> IF QIsZero(nrm) THEN Zero ELSE QDiv(w[i], nrm)]

\* w orthogonalized against the basis vectors qs[i..], one after the other:
\* <<remainder, coefficients>>
RECURSIVE Orthogonalize(_, _, _, _)
Orthogonalize(w, qs, i, hs) ==
    IF i > Len(qs) THEN <<w, hs>>
    ELSE LET h == Dot(qs[i], w)
         IN  Orthogonalize([k \in 1..Len(w) |-> QSub(w[k], QMul(h, qs[i][k]))],
                           qs, i + 1, Append(hs, h))

\* the steps from Len(hcols) + 1 on.  qs: the basis vectors so far; hcols:
\* the columns of H so far, column j with j + 1 entries.  early: stop when
\* the norm of the remainder is below tol.  modelled: every norm
\* was rational
RECURSIVE ArnoldiFrom(_, _, _, _, _, _)
ArnoldiFrom(A, qs, hcols, max_iters, tol, early) ==
    LET j == Len(hcols) + 1
        ow == Orthogonalize(MatVec(A, qs[j]), qs, 1, <<>>)
        nrm2 == NormSq(ow[1])
        nrm == QSqrt(nrm2)
        qs2 == Append(qs, ShieldedScale(ow[1], nrm))
        hcols2 == Append(hcols, Append(ow[2], nrm))
    IN  IF ~HasSqrt(nrm2) THEN [modelled |-> FALSE, qs |-> qs, hcols |-> hcols]
        ELSE IF j >= max_iters \/ (early /\ QLt(nrm, tol))
             THEN [modelled |-> TRUE, qs |-> qs2, hcols |-> hcols2]
        ELSE ArnoldiFrom(A, qs2, hcols2, max_iters, tol, early)

\* the recurrence started from the normalized residual (a column)
Arnoldi(A, rhs, max_iters, tol, early) ==
    LET r == [i \in 1..NRows(rhs) |-> rhs[i][1]]
    IN  IF ~HasSqrt(NormSq(r)) THEN [modelled |-> FALSE, qs |-> <<>>, hcols |-> <<>>]
        ELSE ArnoldiFrom(A, <<ShieldedScale(r, QSqrt(NormSq(r)))>>, <<>>,
                         max_iters, tol, early)

\* the first ncols basis vectors as the columns of a matrix
BasisMatrix(qs, ncols) == [i \in 1..Len(qs[1]) |-> [j \in 1..ncols |-> qs[j][i]]]

\* the first nrows rows of H
HessenbergMatrix(hcols, nrows) ==
    [i \in 1..nrows |->
        [j \in 1..Len(hcols) |-> IF i <= j + 1 THEN hcols[j][i] ELSE Zero]]

\* get_arnoldi_matrix(A, rhs, max_iters, tol): Q and H after k steps
get_arnoldi_matrix(A, rhs, max_iters, tol) ==
    LET a == Arnoldi(A, rhs, max_iters, tol, TRUE)
        k == Len(a.hcols)
    IN  IF ~a.modelled THEN [modelled |-> FALSE]
        ELSE [modelled |-> TRUE, Q |-> BasisMatrix(a.qs, k + 1),
              H |-> HessenbergMatrix(a.hcols, k + 1)]

\* run_householder_arnoldi(A, rhs, max_iters): the same Hessenberg matrix,
\* max_iters steps whatever the norms.  The model covers the runs without a
\* breakdown (no zero norm before the last step), where the basis of the
\* reflectors spans the same spaces as the basis of the recurrence
run_householder_arnoldi(A, rhs, max_iters) ==
    LET a == Arnoldi(A, rhs, max_iters, Zero, FALSE)
        k == Len(a.hcols)
    IN  IF ~a.modelled THEN [modelled |-> FALSE]
        ELSE IF \E j \in 1..k : \A i \in 1..Len(a.qs[j]) : QIsZero(a.qs[j][i])
             THEN [modelled |-> FALSE]
        ELSE [modelled |-> TRUE, Q |-> BasisMatrix(a.qs, k),
              H |-> HessenbergMatrix(a.hcols, k)]

----------------------------------------------------------------------------
(* gmres, gmres.py 8-61, for a 1-D rhs and a Dense operator A             *)

\* the matrix without row i and column j
Minor(M, i, j) ==
    [r \in 1..(NRows(M) - 1) |->
        [c \in 1..(NCols(M) - 1) |->
            M[IF r < i THEN r ELSE r + 1][IF c < j THEN c ELSE c + 1]]]

RECURSIVE Det(_)
Det(M) ==
    IF NRows(M) = 0 THEN One
    ELSE QSum([j \in 1..NCols(M) |->
            QMul(IF j % 2 = 1 THEN M[1][j] ELSE QNeg(M[1][j]), Det(Minor(M, 1, j)))])

\* xnp.solve(M, b) for a column b, by Cramer's rule; NaN entries for a
\* singular M, where a backend either raises or returns nan/inf
Solve(M, b) ==
    [i \in 1..NRows(M) |->
        <<QDiv(Det([r \in 1..NRows(M) |->
                      [c \in 1..NCols(M) |-> IF c = i THEN b[r][1] ELSE M[r][c]]]),
               Det(M))>>]

\* xnp.solvetri(Rm, t, lower=False) for a column t: the back substitution
\* from row i up, ys the entries below row i; NaN after a zero pivot
RECURSIVE BackSubstitute(_, _, _, _)
BackSubstitute(Rm, t, i, ys) ==
    IF i < 1 THEN ys
    ELSE LET n == NRows(Rm)
             acc == QSum([k \in 1..(n - i) |-> QMul(Rm[i][i + k], ys[k])])
         IN  BackSubstitute(Rm, t, i - 1, <<QDiv(QSub(t[i][1], acc), Rm[i][i])>> \o ys)

solvetri(Rm, t) == Column(BackSubstitute(Rm, t, NRows(Rm), <<>>))

\* M[:-1, :]
DropLastRow(M) == SubSeq(M, 1, NRows(M) - 1)

\* Q[:, :-1]
DropLastCol(M) == [i \in 1..NRows(M) |-> SubSeq(M[i], 1, NCols(M) - 1)]

\* A + B and A - B
MatAdd(A, B) == [i \in 1..NRows(A) |-> [j \in 1..NCols(A) |-> QAdd(A[i][j], B[i][j])]]
MatSub(A, B) == [i \in 1..NRows(A) |-> [j \in 1..NCols(A) |-> QSub(A[i][j], B[i][j])]]

\* every square root get_hessenberg_triangular_qr takes from index j on is
\* rational
RECURSIVE QRExactFrom(_, _)
QRExactFrom(Rm, j) ==
    IF j >= NRows(Rm) - 1 THEN TRUE
    ELSE IF GivensExact(Rm[j + 1][j + 1], Rm[j + 2][j + 1])
         THEN QRExactFrom(QRUpdate(Rm, j), j + 1)
         ELSE FALSE

\* the system of the triangular path, lines 49-52
TriangularSystem(Rm, target, use_householder) ==
    IF use_householder THEN <<Rm, target>>
    ELSE <<DropLastRow(Rm), DropLastRow(target)>>

\* the inputs: A of shape (n, n), rhs and x0 of length n, x0 possibly not
\* given, tol the default 1e-7 or a large one
MaxN == 2

InitGmres ==
    /\ pc = "gm_start"
    /\ \E n \in 1..MaxN :
        /\ mA \in [1..n -> [1..n -> {I2Q(-1), Zero, One}]]
        /\ mrhs \in [1..n -> {Zero, Frac(3, 4), One}]
        /\ mx0 \in {Unset, [i \in 1..n |-> One]}
        /\ mmax_iters \in 1..n
    /\ mtol \in {Frac(1, 10000000), I2Q(2)}
    /\ muse_householder \in BOOLEAN
    /\ muse_triangular \in BOOLEAN
    /\ mres = None /\ mQ = None /\ mH = None /\ mbeta = None /\ me1 = None
    /\ mR = None /\ mGs = None /\ mtarget = None /\ my = None /\ msoln = None
    /\ IdleGivens /\ IdleQR /\ IdleHH /\ IdleOp /\ IdleSA /\ IdleCG /\ IdleProd

\* lines 28-35: x0 defaults to zeros, rhs and x0 become columns, the
\* initial residual
GmresResidual ==
    /\ pc = "gm_start"
    /\ mx0' = IF mx0 = Unset THEN [i \in 1..Len(mrhs) |-> <<Zero>>] ELSE Column(mx0)
    /\ mrhs' = Column(mrhs)
    /\ mres' = MatSub(mrhs', MatMul(mA, mx0'))
    /\ pc' = "gm_arnoldi"
    /\ UNCHANGED <<mA, mmax_iters, mtol, muse_householder, muse_triangular,
                   mQ, mH, mbeta, me1, mR, mGs, mtarget, my, msoln>>

\* lines 36-37
GmresHouseholderArnoldi ==
    /\ pc = "gm_arnoldi"
    /\ muse_householder
    /\ \E a \in {run_householder_arnoldi(mA, mres, mmax_iters)} :
           /\ a.modelled
           /\ mQ' = a.Q
           /\ mH' = a.H
    /\ pc' = "gm_e1"
    /\ UNCHANGED <<mA, mrhs, mx0, mmax_iters, mtol, muse_householder, muse_triangular,
                   mres, mbeta, me1, mR, mGs, mtarget, my, msoln>>

\* lines 38-41
GmresArnoldi ==
    /\ pc = "gm_arnoldi"
    /\ ~muse_householder
    /\ \E a \in {get_arnoldi_matrix(mA, mres, mmax_iters, mtol)} :
           /\ a.modelled
           /\ mQ' = DropLastCol(a.Q)
           /\ mH' = a.H
    /\ pc' = "gm_e1"
    /\ UNCHANGED <<mA, mrhs, mx0, mmax_iters, mtol, muse_householder, muse_triangular,
                   mres, mbeta, me1, mR, mGs, mtarget, my, msoln>>

\* lines 42-44: beta and e1
GmresE1 ==
    /\ pc = "gm_e1"
    /\ mbeta' = QSqrt(NormSq([i \in 1..NRows(mres) |-> mres[i][1]]))
    /\ me1' = [i \in 1..NRows(mH) |-> <<IF i = 1 THEN mbeta' ELSE Zero>>]
    /\ pc' = IF muse_triangular THEN "gm_triangular" ELSE "gm_normal"
    /\ UNCHANGED <<mA, mrhs, mx0, mmax_iters, mtol, muse_householder, muse_triangular,
                   mres, mQ, mH, mR, mGs, mtarget, my, msoln>>

\* lines 47-48
GmresTriangularQR ==
    /\ pc = "gm_triangular"
    /\ QRExactFrom(mH, 0)
    /\ \E qr \in {get_hessenberg_triangular_qr(mH)} :
           /\ mR' = qr[1]
           /\ mGs' = qr[2]
    /\ mtarget' = apply_givens_fwd(mGs', me1)
    /\ pc' = "gm_solvetri"
    /\ UNCHANGED <<mA, mrhs, mx0, mmax_iters, mtol, muse_householder, muse_triangular,
                   mres, mQ, mH, mbeta, me1, my, msoln>>

\* lines 49-52
GmresSolvetri ==
    /\ pc = "gm_solvetri"
    /\ LET sys == TriangularSystem(mR, mtarget, muse_householder)
       IN  my' = solvetri(sys[1], sys[2])
    /\ pc' = "gm_solved"
    /\ UNCHANGED <<mA, mrhs, mx0, mmax_iters, mtol, muse_householder, muse_triangular,
                   mres, mQ, mH, mbeta, me1, mR, mGs, mtarget, msoln>>

\* xnp.solvetri raises on a zero pivot (a backend that does not raise
\* returns the nan/inf of GmresSolvetri)
GmresSolvetriRaise ==
    /\ pc = "gm_solvetri"
    /\ LET Rm == TriangularSystem(mR, mtarget, muse_householder)[1]
       IN  \E i \in 1..NRows(Rm) : QIsZero(Rm[i][i])
    /\ pc' = "gm_raised"
    /\ UNCHANGED varsGm

\* line 54
GmresSolve ==
    /\ pc = "gm_normal"
    /\ my' = Solve(MatMul(MatT(mH), mH), MatMul(MatT(mH), me1))
    /\ pc' = "gm_solved"
    /\ UNCHANGED <<mA, mrhs, mx0, mmax_iters, mtol, muse_householder, muse_triangular,
                   mres, mQ, mH, mbeta, me1, mR, mGs, mtarget, msoln>>

\* xnp.solve raises on a singular matrix (a backend that does not raise
\* returns the nan/inf of GmresSolve)
GmresSolveRaise ==
    /\ pc = "gm_normal"
    /\ QIsZero(Det(MatMul(MatT(mH), mH)))
    /\ pc' = "gm_raised"
    /\ UNCHANGED varsGm

\* lines 55-61: soln = x0 + Q @ y, returned as a 1-D array
GmresReturn ==
    /\ pc = "gm_solved"
    /\ msoln' = LET soln == MatAdd(mx0, MatMul(mQ, my))
                IN  [i \in 1..NRows(soln) |-> soln[i][1]]
    /\ pc' = "gm_done"
    /\ UNCHANGED <<mA, mrhs, mx0, mmax_iters, mtol, muse_householder, muse_triangular,
                   mres, mQ, mH, mbeta, me1, mR, mGs, mtarget, my>>

NextGmres ==
    \/ GmresResidual /\ UNCHANGED <<varsQR, varsGivens, varsHH, varsOp, varsSA, varsCG, varsProd>>
    \/ GmresHouseholderArnoldi /\ UNCHANGED <<varsQR, varsGivens, varsHH, varsOp, varsSA,
            varsCG, varsProd>>
    \/ GmresArnoldi /\ UNCHANGED <<varsQR, varsGivens, varsHH, varsOp, varsSA, varsCG, varsProd>>
    \/ GmresE1 /\ UNCHANGED <<varsQR, varsGivens, varsHH, varsOp, varsSA, varsCG, varsProd>>
    \/ GmresTriangularQR /\ UNCHANGED <<varsQR, varsGivens, varsHH, varsOp, varsSA, varsCG,
            varsProd>>
    \/ GmresSolvetri /\ UNCHANGED <<varsQR, varsGivens, varsHH, varsOp, varsSA, varsCG, varsProd>>
    \/ GmresSolvetriRaise /\ UNCHANGED <<varsQR, varsGivens, varsHH, varsOp, varsSA, varsCG,
            varsProd>>
    \/ GmresSolve /\ UNCHANGED <<varsQR, varsGivens, varsHH, varsOp, varsSA, varsCG, varsProd>>
    \/ GmresSolveRaise /\ UNCHANGED <<varsQR, varsGivens, varsHH, varsOp, varsSA, varsCG, varsProd>>
    \/ GmresReturn /\ UNCHANGED <<varsQR, varsGivens, varsHH, varsOp, varsSA, varsCG, varsProd>>

----------------------------------------------------------------------------
(* The scalars of run_cg_lanczos *)

(***************************************************************************)
(* The loop divides by a norm at every step, and a norm is irrational in   *)
(* general.  A scalar of this routine is (n/d) * sqrt(m), written          *)
(* <<n, d, m>>, with n/d in lowest terms, d > 0 and m >= 1 square-free;    *)
(* zero is <<0, 1, 1>>.  Every sum the recurrence forms is of two scalars  *)
(* with the same m (or of a zero); SMixed marks a sum that is not.         *)
(* SNaN is the nan or inf of a division by zero: inf arises only in dir,   *)
(* gamma, nu, des and x, which the loop condition does not read.           *)
(***************************************************************************)
SNaN == <<0, 0, 1>>
SMixed == <<0, 0, 0>>
SIsNaN(a) == a[2] = 0
SNotANumber(a, b) == IF a = SMixed \/ b = SMixed THEN SMixed ELSE SNaN

\* the largest s with s * s dividing m >= 1
SquarePart(m) ==
    CHOOSE s \in 1..ISqrt(m) :
        m % (s * s) = 0 /\ \A t \in (s + 1)..ISqrt(m) : m % (t * t) # 0

Surd(n, d, m) ==
    IF d = 0 THEN SNaN
    ELSE IF n = 0 THEN <<0, 1, 1>>
    ELSE LET s == SquarePart(m)
             f == Frac(n * s, d)
         IN  <<f[1], f[2], m \div (s * s)>>

I2S(n) == <<n, 1, 1>>
SZero == I2S(0)
SOne == I2S(1)

SNeg(a) == <<-a[1], a[2], a[3]>>

SAdd(a, b) ==
    IF SIsNaN(a) \/ SIsNaN(b) THEN SNotANumber(a, b)
    ELSE IF a[1] = 0 THEN b
    ELSE IF b[1] = 0 THEN a
    ELSE IF a[3] # b[3] THEN SMixed
    ELSE LET f == QAdd(<<a[1], a[2]>>, <<b[1], b[2]>>)
         IN  Surd(f[1], f[2], a[3])

SSub(a, b) == SAdd(a, SNeg(b))

SMul(a, b) ==
    IF SIsNaN(a) \/ SIsNaN(b) THEN SNotANumber(a, b)
    ELSE LET g == GCD(a[3], b[3])
             f == Frac(a[1], b[2])
             h == Frac(b[1], a[2])
         IN  Surd(f[1] * h[1] * g, f[2] * h[2], (a[3] \div g) * (b[3] \div g))

\* 1 / ((n/d) sqrt(m)) = (d / (n m)) sqrt(m)
SDiv(a, b) ==
    IF SIsNaN(a) \/ SIsNaN(b) THEN SNotANumber(a, b)
    ELSE IF b[1] = 0 THEN SNaN
    ELSE SMul(a, Surd(b[2], b[1] * b[3], b[3]))

\* the square of a scalar, a rational
SSquare(a) == Frac(a[1] * a[1] * a[3], a[2] * a[2])

\* the square root of a rational that is not negative
SSqrt(a) ==
    IF SIsNaN(a) THEN a
    ELSE IF a[3] # 1 \/ a[1] < 0 THEN SMixed
    ELSE IF a[1] = 0 THEN SZero
    ELSE Surd(1, a[2], a[1] * a[2])

\* a > b, false on nan
SGt(a, b) ==
    /\ ~SIsNaN(a) /\ ~SIsNaN(b)
    /\ IF a[1] >= 0 /\ b[1] < 0 THEN TRUE
       ELSE IF a[1] < 0 /\ b[1] >= 0 THEN FALSE
       ELSE IF a[1] >= 0 THEN QLt(SSquare(b), SSquare(a))
       ELSE QLt(SSquare(a), SSquare(b))

RECURSIVE SSum(_)
SSum(s) == IF s = <<>> THEN SZero ELSE SAdd(s[1], SSum(Tail(s)))

SDot(u, w) == SSum([i \in 1..Len(u) |-> SMul(u[i], w[i])])
SMatVec(A, w) == [i \in 1..Len(A) |-> SDot(A[i], w)]
SScale(c, w) == [i \in 1..Len(w) |-> SMul(c, w[i])]
SVecAdd(u, w) == [i \in 1..Len(u) |-> SAdd(u[i], w[i])]
SVecSub(u, w) == [i \in 1..Len(u) |-> SSub(u[i], w[i])]
SVecDiv(u, c) == [i \in 1..Len(u) |-> SDiv(u[i], c)]
\* np.linalg.norm of a vector
SNorm(w) == SSqrt(SDot(w, w))

----------------------------------------------------------------------------
(* run_cg_lanczos (tests/algorithms/test_cg.py) *)

\* arr[i] and arr[i] = v of a preallocated array, i an index in range or a
\* negative one counted from the end
Get(arr, i) == arr[(i % Len(arr)) + 1]
Put(arr, i, v) == [j \in 1..Len(arr) |-> IF j = (i % Len(arr)) + 1 THEN v ELSE arr[j]]

\* arr[a:b]
Slice(arr, a, b) ==
    LET hi == IF b < Len(arr) THEN b ELSE Len(arr)
    IN  [i \in 1..(IF hi > a THEN hi - a ELSE 0) |-> arr[a + i]]

\* np.zeros((n, max_iters)) as max_iters columns, np.zeros((max_iters,))
ZeroColumns(n, max_iters) == [j \in 1..max_iters |-> [i \in 1..n |-> SZero]]
ZeroScalars(max_iters) == [j \in 1..max_iters |-> SZero]

\* lines 267-283
initialize_cg_lanczos(A, rhs, x0, max_iters) ==
    LET zeros == ZeroColumns(Len(rhs), max_iters)
        x == Put(zeros, 0, x0)
        res == Put(zeros, 0, SVecSub(rhs, SMatVec(A, Get(x, 0))))
    IN  [x |-> x, alpha |-> Put(ZeroScalars(max_iters), 0, SNorm(Get(res, 0))),
         beta |-> ZeroScalars(max_iters), k |-> 0, res |-> res, q |-> zeros,
         des |-> zeros, dir |-> ZeroScalars(max_iters),
         nu |-> ZeroScalars(max_iters), gamma |-> ZeroScalars(max_iters)]

\* line 247: the loop condition
CGContinue_capless == SGt(Get(lalpha, lk), ltolerance)

CGContinue_late == SGt(Get(lalpha, lk), ltolerance) /\ lk < lmax_iters

CGContinue == SGt(Get(lalpha, lk), ltolerance) /\ lk < lmax_iters - 1

\* the inputs: a matrix of the list, rhs of zeros and ones, x0 zeros (or
\* ones, for a matrix of order 1 or 2), max_iters from 1 to MaxIters, a
\* tight, a loose and a negative tolerance
MaxIters == 5

IntMatrix(M) == [i \in 1..Len(M) |-> [j \in 1..Len(M[i]) |-> I2S(M[i][j])]]

CGMatrices ==
    {IntMatrix(<<<<3, 0, 0>>, <<0, 4, 0>>, <<0, 0, 5>>>>),
     IntMatrix(<<<<2, 1>>, <<1, 2>>>>), IntMatrix(<<<<1, 0>>, <<0, 1>>>>),
     IntMatrix(<<<<0, 1>>, <<1, 0>>>>), IntMatrix(<<<<1, 1>>, <<0, 1>>>>),
     IntMatrix(<<<<0, 0>>, <<0, 0>>>>), IntMatrix(<<<<2>>>>)}

\* before the call an array is the empty sequence and a counter is 0
InitCG ==
    /\ pc = "cg_start"
    /\ lA = <<>> /\ lrhs = <<>> /\ lx0 = <<>> /\ lmax_iters = 0 /\ ltolerance = <<>>
    /\ lx = <<>> /\ lalpha = <<>> /\ lbeta = <<>> /\ lk = 0 /\ lres = <<>>
    /\ lq = <<>> /\ ldes = <<>> /\ ldir = <<>> /\ lnu = <<>> /\ lgamma = <<>>
    /\ lAq = <<>> /\ lT = <<>> /\ lused = {} /\ ltrips = 0
    /\ IdleGivens /\ IdleQR /\ IdleHH /\ IdleOp /\ IdleSA /\ IdleGm /\ IdleProd

\* line 228 of test_cg_lanczos: run_cg_lanczos is called
CGCall ==
    /\ pc = "cg_start"
    /\ pc' = "cg_called"
    /\ lA' \in CGMatrices
    /\ lrhs' \in [1..Len(lA') -> {SZero, SOne}]
    /\ lx0' \in {[i \in 1..Len(lA') |-> SZero]}
                \cup {[i \in 1..Len(lA') |-> SOne] : n \in {Len(lA')} \cap {1, 2}}
    /\ lmax_iters' \in 1..MaxIters
    /\ ltolerance' \in {Surd(1, 1000, 1), SOne, I2S(-1)}
    /\ UNCHANGED <<lx, lalpha, lbeta, lk, lres, lq, ldes, ldir, lnu, lgamma, lAq, lT,
                   lused, ltrips>>

\* lines 244-245
CGInitialize ==
    /\ pc = "cg_called"
    /\ pc' = "cg_loop"
    /\ \E out \in {initialize_cg_lanczos(lA, lrhs, lx0, lmax_iters)} :
        /\ lx' = out.x /\ lalpha' = out.alpha /\ lbeta' = out.beta /\ lk' = out.k
        /\ lres' = out.res /\ lq' = out.q /\ ldes' = out.des /\ ldir' = out.dir
        /\ lnu' = out.nu /\ lgamma' = out.gamma
    /\ lused' = {0}
    /\ UNCHANGED <<lA, lrhs, lx0, lmax_iters, ltolerance, lAq, lT, ltrips>>

\* lines 247-249: the loop condition holds, the body starts: the next
\* column of q, and k is incremented
CGNormalize ==
    /\ pc = "cg_loop"
    /\ pc' = "cg_matvec"
    /\ CGContinue
    /\ lq' = Put(lq, lk + 1, SVecDiv(Get(lres, lk), Get(lalpha, lk)))
    /\ lk' = lk + 1
    /\ lused' = {lk + 1, lk}
    /\ ltrips' = ltrips + 1
    /\ UNCHANGED <<lA, lrhs, lx0, lmax_iters, ltolerance, lx, lalpha, lbeta, lres,
                   ldes, ldir, lnu, lgamma, lAq, lT>>

\* lines 250-251
CGMatvec ==
    /\ pc = "cg_matvec"
    /\ pc' = "cg_branch"
    /\ lAq' = SMatVec(lA, Get(lq, lk))
    /\ lbeta' = Put(lbeta, lk, SDot(Get(lq, lk), SMatVec(lA, Get(lq, lk))))
    /\ lused' = {lk}
    /\ UNCHANGED <<lA, lrhs, lx0, lmax_iters, ltolerance, lx, lalpha, lk, lres, lq,
                   ldes, ldir, lnu, lgamma, lT, ltrips>>

\* lines 252-255: the branch k == 1
CGFirstDirection ==
    /\ pc = "cg_branch"
    /\ pc' = "cg_update"
    /\ lk = 1
    /\ \E dir \in {Put(ldir, lk, Get(lbeta, lk))} :
        /\ ldir' = dir
        /\ lnu' = Put(lnu, lk, SDiv(Get(lalpha, lk - 1), Get(dir, lk)))
    /\ ldes' = Put(ldes, lk, Get(lq, lk))
    /\ lused' = {lk, lk - 1}
    /\ UNCHANGED <<lA, lrhs, lx0, lmax_iters, ltolerance, lx, lalpha, lbeta, lk,
                   lres, lq, lgamma, lAq, lT, ltrips>>

\* lines 256-260: the else branch
CGLaterDirection ==
    /\ pc = "cg_branch"
    /\ pc' = "cg_update"
    /\ lk # 1
    /\ \E gamma \in {Put(lgamma, lk - 1, SDiv(Get(lalpha, lk - 1), Get(ldir, lk - 1)))} :
        /\ lgamma' = gamma
        /\ \E dir \in {Put(ldir, lk,
                            SSub(Get(lbeta, lk),
                                 SMul(Get(lalpha, lk - 1), Get(gamma, lk - 1))))} :
            /\ ldir' = dir
            /\ lnu' = Put(lnu, lk,
                          SDiv(SNeg(SMul(Get(lalpha, lk - 1), Get(lnu, lk - 1))),
                               Get(dir, lk)))
        /\ ldes' = Put(ldes, lk,
                       SVecSub(Get(lq, lk),
                               SScale(Get(gamma, lk - 1), Get(ldes, lk - 1))))
    /\ lused' = {lk - 1, lk}
    /\ UNCHANGED <<lA, lrhs, lx0, lmax_iters, ltolerance, lx, lalpha, lbeta, lk,
                   lres, lq, lAq, lT, ltrips>>

\* lines 261-263: the iterate, the residual and its norm; the body ends
CGUpdate ==
    /\ pc = "cg_update"
    /\ pc' = "cg_loop"
    /\ lx' = Put(lx, lk, SVecAdd(Get(lx, lk - 1), SScale(Get(lnu, lk), Get(ldes, lk))))
    /\ \E res \in {Put(lres, lk,
                        SVecSub(SVecSub(lAq, SScale(Get(lbeta, lk), Get(lq, lk))),
                                SScale(Get(lalpha, lk - 1), Get(lq, lk - 1))))} :
        /\ lres' = res
        /\ lalpha' = Put(lalpha, lk, SNorm(Get(res, lk)))
    /\ lused' = {lk, lk - 1}
    /\ UNCHANGED <<lA, lrhs, lx0, lmax_iters, ltolerance, lbeta, lk, lq, ldes,
                   ldir, lnu, lgamma, lAq, lT, ltrips>>

\* lines 247 and 264: the loop condition is false
CGReturn ==
    /\ pc = "cg_loop"
    /\ pc' = "cg_returned"
    /\ ~CGContinue
    /\ lused' = {lk}
    /\ UNCHANGED <<lA, lrhs, lx0, lmax_iters, ltolerance, lx, lalpha, lbeta, lk,
                   lres, lq, ldes, ldir, lnu, lgamma, lAq, lT, ltrips>>

\* lines 286-298: T[idx, idx + 1] = band[idx] and T[idx, idx - 1] =
\* band[idx - 1] raise IndexError when band or T has no such element
ConstructTriRaises(band, diag) ==
    Len(diag) >= 1 /\ (Len(diag) = 1 \/ Len(band) < Len(diag) - 1)

construct_tri(band, diag) ==
    [i \in 1..Len(diag) |->
        [j \in 1..Len(diag) |->
            IF j = i THEN diag[i]
            ELSE IF j = i + 1 THEN band[i]
            ELSE IF j = i - 1 THEN band[i - 1]
            ELSE SZero]]

\* line 232 of test_cg_lanczos: T is built
CGConstructTri ==
    /\ pc = "cg_returned"
    /\ pc' = "cg_done"
    /\ ~ConstructTriRaises(Slice(lalpha, 1, lk), Slice(lbeta, 1, lk + 1))
    /\ lT' = construct_tri(Slice(lalpha, 1, lk), Slice(lbeta, 1, lk + 1))
    /\ UNCHANGED <<lA, lrhs, lx0, lmax_iters, ltolerance, lx, lalpha, lbeta, lk,
                   lres, lq, ldes, ldir, lnu, lgamma, lAq, lused, ltrips>>

\* line 232 of test_cg_lanczos: construct_tri raises
CGConstructTriRaise ==
    /\ pc = "cg_returned"
    /\ pc' = "cg_tri_raised"
    /\ ConstructTriRaises(Slice(lalpha, 1, lk), Slice(lbeta, 1, lk + 1))
    /\ UNCHANGED varsCG

\* the positions of test_cg_lanczos and run_cg_lanczos, and a move from one
\* that is not the last to another
CGPositions ==
    {"cg_start", "cg_called", "cg_loop", "cg_matvec", "cg_branch", "cg_update",
     "cg_returned", "cg_done", "cg_tri_raised"}

CGProceed == pc \notin {"cg_done", "cg_tri_raised"} /\ pc' \in CGPositions /\ pc' # pc

NextCG ==
    \/ CGCall /\ UNCHANGED <<varsQR, varsGivens, varsHH, varsOp, varsSA, varsGm, varsProd>>
    \/ CGInitialize /\ UNCHANGED <<varsQR, varsGivens, varsHH, varsOp, varsSA, varsGm, varsProd>>
    \/ CGNormalize /\ UNCHANGED <<varsQR, varsGivens, varsHH, varsOp, varsSA, varsGm, varsProd>>
    \/ CGMatvec /\ UNCHANGED <<varsQR, varsGivens, varsHH, varsOp, varsSA, varsGm, varsProd>>
    \/ CGFirstDirection /\ UNCHANGED <<varsQR, varsGivens, varsHH, varsOp, varsSA, varsGm,
            varsProd>>
    \/ CGLaterDirection /\ UNCHANGED <<varsQR, varsGivens, varsHH, varsOp, varsSA, varsGm,
            varsProd>>
    \/ CGUpdate /\ UNCHANGED <<varsQR, varsGivens, varsHH, varsOp, varsSA, varsGm, varsProd>>
    \/ CGReturn /\ UNCHANGED <<varsQR, varsGivens, varsHH, varsOp, varsSA, varsGm, varsProd>>
    \/ CGConstructTri /\ UNCHANGED <<varsQR, varsGivens, varsHH, varsOp, varsSA, varsGm, varsProd>>
    \/ CGConstructTriRaise /\ UNCHANGED <<varsQR, varsGivens, varsHH, varsOp, varsSA, varsGm,
            varsProd>>

----------------------------------------------------------------------------
(* Specifications *)

SpecGivens == InitGivens /\ [][NextGivens]_vars
SpecQR == InitQR /\ [][NextQR]_vars
SpecHH == InitHH /\ [][NextHH]_vars
SpecCtor == InitCtor /\ [][NextCtor]_vars
SpecOps == InitOps /\ [][NextOps]_vars
SpecKron == InitKron /\ [][NextKron]_vars
SpecBlock == InitBlock /\ [][NextKron]_vars
SpecSA == InitSA /\ [][NextSA]_vars
SpecGmres == InitGmres /\ [][NextGmres]_vars
SpecProd == InitProd /\ [][NextProd]_vars
SpecCG == InitCG /\ [][NextCG]_vars
\* the test is not interrupted: while it has not ended, its next statement
\* is executed
SpecCGFair == InitCG /\ [][NextCG]_vars /\ WF_pc(CGProceed)

----------------------------------------------------------------------------
(* Properties of get_givens_cos_sin *)

\* G.T @ [a; b] for the rotation built from the returned (c, s)
GivensApplied == MatMul(MatT(GivensMatrix(<<gc, gs>>)), <<<<ga>>, <<gb>>>>)

\* C8: get_givens_cos_sin(a, b) returns (c, s) with G = [[c, s], [-s, c]]
\* such that G.T [a; b] = [r; 0] and c^2 + s^2 = 1 for every a and every
\* b != 0, returns (1, 0) when b = 0, and never divides by zero: the
\* radicand a^2 + b^2 is positive whenever the division is reached.
C8_GivensAnnihilates ==
    /\ (pc = "givens_start" /\ ~QIsZero(gb)) => QLt(Zero, GivensRadicand(ga, gb))
    /\ pc = "givens_divide" => QLt(Zero, gdenom)
    /\ pc = "givens_done" =>
        /\ ~IsNaN(gc) /\ ~IsNaN(gs)
        /\ QIsZero(GivensApplied[2][1])
        /\ QAdd(QSq(gc), QSq(gs)) = One
        /\ QSq(GivensApplied[1][1]) = GivensRadicand(ga, gb)
        /\ QIsZero(gb) => (gc = One /\ gs = Zero)

\* a proper rotation has been computed (a != 0, b != 0)
C8_Witness == pc = "givens_done" /\ ~QIsZero(ga) /\ ~QIsZero(gb) /\ gdenom # None

----------------------------------------------------------------------------
(* Properties of get_hessenberg_triangular_qr and apply_givens_fwd *)

UpperTriangular(M) ==
    \A i \in 1..NRows(M) : \A j \in 1..NCols(M) : i > j => QIsZero(M[i][j])

\* columns 0 .. n-1 (0-based) are zero below the diagonal
ZeroBelowDiagUpTo(M, n) ==
    \A j \in 1..n : \A i \in 1..NRows(M) : (j <= NCols(M) /\ i > j) => QIsZero(M[i][j])

IsRotation(G) ==
    /\ G[1][1] = G[2][2]
    /\ G[2][1] = QNeg(G[1][2])
    /\ QAdd(QSq(G[1][1]), QSq(G[1][2])) = One

C5_Inv ==
    /\ pc = "qr_loop" =>
        /\ Len(Gs) = jdx
        /\ jdx <= NRows(H) - 1
        /\ ZeroBelowDiagUpTo(R, jdx)
        /\ \A i \in 1..NRows(R) : i > jdx + 1 => R[i] = H[i]
    /\ pc \in {"fwd_loop", "fwd_done"} =>
        /\ Len(Gs) = NRows(H) - 1
        /\ UpperTriangular(R)
        /\ \A j \in 1..Len(Gs) : IsRotation(Gs[j])
        /\ apply_givens_fwd(Gs, H) = R
    /\ pc = "fwd_done" => jdx = Len(Gs)

C5_Act ==
    /\ H' = H
    /\ (pc = "qr_loop" /\ pc' = "qr_loop") =>
        /\ jdx' = jdx + 1
        /\ \A i \in 1..NRows(R) : i \notin {jdx + 1, jdx + 2} => R'[i] = R[i]
        /\ Len(Gs') = Len(Gs) + 1
        /\ SubSeq(Gs', 1, Len(Gs)) = Gs
        /\ QIsZero(R'[jdx + 2][jdx + 1])
    /\ (pc = "fwd_loop" /\ pc' = "fwd_loop") =>
        /\ jdx' = jdx + 1
        /\ \A i \in 1..NRows(vec) : i \notin {jdx + 1, jdx + 2} => vec'[i] = vec[i]
        /\ TakeRows(vec', jdx) = MatMul(MatT(Gs[jdx + 1]), TakeRows(vec, jdx))
        /\ Gs' = Gs /\ R' = R

\* C5: on a Hessenberg H, get_hessenberg_triangular_qr performs one Givens
\* rotation per subdiagonal entry in increasing column order, rotation j
\* touching only rows j and j+1 and keeping the zeros made so far, so that R
\* is upper triangular; the rotations are logged in order, H is not
\* modified, and apply_givens_fwd replays logged rotation j on rows
\* (j, j+1) of its argument, so that replaying the log on H gives R.
C5_HessenbergQR == []C5_Inv /\ [][C5_Act]_vars

\* two proper rotations were made and replayed on the right-hand side
C5_Witness ==
    /\ pc = "fwd_done"
    /\ Len(Gs) = 2
    /\ \A j \in 1..2 : ~QIsZero(Gs[j][1][2]) /\ ~QIsZero(Gs[j][1][1])
    /\ R # H
    /\ NRows(vec) = 3 /\ ~QIsZero(vec[3][1])

----------------------------------------------------------------------------
(* Properties of get_householder_vec *)

\* every entry of x strictly below idx is zero: the sub-pivot norm is zero
SubPivotZero == \A i \in 1..Len(hx) : i > hidx + 1 => QIsZero(hx[i])

\* C6: get_householder_vec returns beta = 0 when the norm of the entries of
\* x strictly below idx is zero and x[idx] >= 0, beta = -2 when it is zero
\* and x[idx] < 0, and takes neither constant arm in any other case.
C6_HouseholderDegenerate ==
    pc \in {"hh_done", "hh_applied"} =>
        /\ (SubPivotZero /\ QLe(Zero, hx[hidx + 1])) <=> hbranch = "zero"
        /\ (SubPivotZero /\ QLt(hx[hidx + 1], Zero)) <=> hbranch = "minus2"
        /\ hbranch = "zero" => hbeta = I2Q(0)
        /\ hbranch = "minus2" => hbeta = I2Q(-2)
        /\ hbranch = "general" => ~SubPivotZero

\* the pivot is zero and so is everything below it: the beta = 0 arm
C6_Witness ==
    /\ pc = "hh_done" /\ hbranch = "zero" /\ QIsZero(hx[hidx + 1])
    /\ Len(hx) > hidx + 1

\* C7: with (v, beta) = get_householder_vec(x, idx), (I - beta v v^T) x is
\* zero at every index strictly below idx, and v is zero at every index
\* before idx, the degenerate arms included.
C7_HouseholderZeroes ==
    /\ pc \in {"hh_done", "hh_applied"} =>
        \A i \in 1..Len(hx) : i < hidx + 1 => QIsZero(hvec[i])
    /\ pc = "hh_applied" =>
        \A i \in 1..Len(hx) : i > hidx + 1 => QIsZero(hout[i][1])

\* the else arm with a positive pivot and a nonzero tail, pivot not first
C7_Witness ==
    /\ pc = "hh_applied" /\ hbranch = "general"
    /\ hidx = 1 /\ Len(hx) = 3
    /\ QLt(Zero, hx[2]) /\ ~QIsZero(hx[3]) /\ ~QIsZero(hx[1])

----------------------------------------------------------------------------
(* Properties of the constructors *)

\* some operand's shape differs from the first operand's
AnyShapeDiffers == \E i \in 1..Len(oargs) : oargs[i].shape # oargs[1].shape

\* some adjacent pair has cols(Mi) # rows(Mi+1)
AnyInnerMismatch ==
    \E i \in 1..(Len(oargs) - 1) : oargs[i].shape[2] # oargs[i + 1].shape[1]

\* C2: constructing Sum(M1..Mk) raises the dimension-mismatch error iff some
\* operand's shape differs from M1's, constructing Product(M1..Mk) raises it
\* iff some adjacent pair has cols(Mi) # rows(Mi+1); a constructed Sum has
\* the common shape and a constructed Product has shape (rows(M1), cols(Mk)).
\* Construction always ends in one of the two.
C2_CtorValidation ==
    /\ pc = "ctor_raised" =>
        /\ oerr = "ValueError: dimension mismatch"
        /\ okind = "Sum" => AnyShapeDiffers
        /\ okind = "Product" => AnyInnerMismatch
    /\ pc = "constructed" =>
        /\ okind = "Sum" =>
            /\ ~AnyShapeDiffers
            /\ \A i \in 1..Len(oargs) : oself.shape = oargs[i].shape
        /\ okind = "Product" =>
            /\ ~AnyInnerMismatch
            /\ oself.shape = <<oargs[1].shape[1], oargs[Len(oargs)].shape[2]>>
    /\ pc \in {"ctor_start", "ctor_validate"} => ENABLED NextCtor

\* a Sum whose second operand has the rows of the first and other columns
C2_Witness ==
    /\ pc = "ctor_raised" /\ okind = "Sum" /\ Len(oargs) = 2
    /\ oargs[1].shape[1] = oargs[2].shape[1]

\* C4 as stated: when the construction of a Sum or Product raises, no field
\* of the operator (operand list, shape, dtype) has been assigned.
C4_NothingAssigned ==
    pc = "ctor_raised" =>
        /\ oself.Ms = Unset
        /\ oself.shape = Unset
        /\ oself.dtype = UnsetDtype

\* C4 as amended: when the construction of a Sum or Product raises, the
\* operand list self.Ms has been assigned and neither shape nor dtype has.
C4_OnlyMsAssigned ==
    pc = "ctor_raised" =>
        /\ oself.Ms = oargs
        /\ oself.shape = Unset
        /\ oself.dtype = UnsetDtype

\* a Product raised on its only adjacent pair
C4_Witness == pc = "ctor_raised" /\ okind = "Product" /\ oself.Ms # Unset

\* some operand's dtype differs from the first operand's
AnyDtypeDiffers == \E i \in 1..Len(oargs) : oargs[i].dtype # oargs[1].dtype

\* C3 as stated: for every composite operator a shape or dtype mismatch
\* among the operands makes construction fail, and a constructed operator
\* never fails in forward-apply on an input of its own column count.
C3_FailsAtConstruction ==
    /\ pc \in {"constructed", "applied"} =>
        /\ ~AnyDtypeDiffers
        /\ okind = "Sum" => ~AnyShapeDiffers
        /\ okind = "Product" => ~AnyInnerMismatch
    /\ pc = "applied" => ~IsErr(oout)

----------------------------------------------------------------------------
(* C10: Kronecker apply against the dense Kronecker product *)

\* C10: applying a Kronecker product of k >= 1 operands (square or not) to X
\* gives the dense Kronecker product of the operands times X, an array of
\* prod(rows of the operands) rows and as many columns as X
C10_KroneckerApply ==
    (pc = "applied" /\ okind = "Kronecker") =>
        /\ ~IsErr(oout)
        /\ oout = TMatMul(KroneckerToDense(oself), ov)
        /\ oout.shape = <<Prod([k \in 1..Len(oargs) |-> Rows(oargs[k])]), ov.shape[2]>>

\* C10: a product of two non-square operands of different shapes applied to
\* an input of two columns, the result not zero
C10_Witness ==
    /\ pc = "applied" /\ okind = "Kronecker" /\ Len(oargs) = 2
    /\ oargs[1].shape = <<2, 1>> /\ oargs[2].shape = <<1, 2>>
    /\ ov.shape = <<2, 2>>
    /\ oout.shape = <<2, 2>>
    /\ \E e \in 1..Len(oout.data) : oout.data[e] # 0

----------------------------------------------------------------------------
(* C9: adjoint-apply and forward-apply of a SelfAdjoint operator *)

----------------------------------------------------------------------------
(* C13: a SelfAdjoint, Symmetric or PSD tag against the operator it wraps *)

\* Symmetric is SelfAdjoint (line 457), PSD a subclass of it
Tagged == pc = "sa_done" /\ stag \in {"SelfAdjoint", "PSD"}

\* A.H == A
IsSelfAdjoint(A) == A = MatT(CMatConj(A))

\* the tag has the shape and the dtype of A, and its forward-apply returns
\* what A's own returns
TagKeepsForward ==
    /\ sop.shape = sbase.shape
    /\ sop.dtype = sbase.dtype
    /\ sfwd = OperatorMatmat(sbase, sX)

\* the tag's adjoint-apply returns what A's own returns, on an input both
\* accept (A square)
TagKeepsAdjoint ==
    /\ sbase.shape[1] = sbase.shape[2]
    /\ sadj = OperatorRmatmat(sbase, MatT(sX))

\* C13 as stated: for every A, symmetric or not, the tagged operator has
\* the shape and the dtype of A and its forward-apply and adjoint-apply
\* return what A's own return
C13_TagKeepsBehaviour ==
    (Tagged /\ sbase.shape[1] = sbase.shape[2]) => (TagKeepsForward /\ TagKeepsAdjoint)

\* C13 amended: for every A the tagged operator has the shape and the dtype
\* of A and its forward-apply returns what A's own returns; its
\* adjoint-apply on X returns X A^H, which is what A's own returns when A is
\* self-adjoint
C13_TagKeepsSelfAdjointBehaviour ==
    Tagged =>
        /\ TagKeepsForward
        /\ sadj = CMatMul(MatT(sX), MatT(CMatConj(sbase.A)))
        /\ IsSelfAdjoint(sbase.A) => TagKeepsAdjoint

\* C13: a PSD tag around a Hermitian matrix with a nonzero imaginary part,
\* applied to a complex input with a nonzero result
C13_Witness ==
    /\ Tagged /\ stag = "PSD" /\ sop.shape = <<2, 2>>
    /\ IsSelfAdjoint(sbase.A) /\ sbase.A[1][2][2] # 0
    /\ \E i \in 1..NRows(sX) : sX[i][1][2] # 0
    /\ \E i \in 1..NRows(sfwd) : sfwd[i][1] # <<0, 0>>
    /\ TagKeepsForward /\ TagKeepsAdjoint

----------------------------------------------------------------------------
(* C14: the order in which a Product applies its operands *)

\* M1(M2(...(Mk X)))
RECURSIVE ForwardNest(_, _)
ForwardNest(Ms, X) ==
    IF Len(Ms) = 0 THEN X ELSE TMatMul(Ms[1].A, ForwardNest(Tail(Ms), X))

\* (((X M1) M2) ... Mk)
RECURSIVE AdjointNest(_, _)
AdjointNest(Ms, X) ==
    IF Len(Ms) = 0 THEN X
    ELSE TMatMul(AdjointNest(SubSeq(Ms, 1, Len(Ms) - 1), X), Ms[Len(Ms)].A)

ProdForward == pc \in {"prod_matmat", "prod_matmat_done"}
ProdAdjoint == pc \in {"prod_rmatmat", "prod_rmatmat_done"}
ProdDone == pc \in {"prod_matmat_done", "prod_rmatmat_done"}

\* the operands applied so far are Mk, Mk-1, ... in forward-apply and M1,
\* M2, ... in adjoint-apply; at the return every operand has been applied
\* exactly once and the result is the nested product
C14_Inv ==
    /\ ProdForward => \A j \in 1..Len(plog) : plog[j] = Len(pMs) + 1 - j
    /\ ProdAdjoint => \A j \in 1..Len(plog) : plog[j] = j
    /\ ProdDone =>
        \A n \in 1..Len(pMs) : Cardinality({j \in 1..Len(plog) : plog[j] = n}) = 1
    /\ pc = "prod_matmat_done" => (~IsErr(pv) /\ pv = ForwardNest(pMs, pX))
    /\ pc = "prod_rmatmat_done" => (~IsErr(pv) /\ pv = AdjointNest(pMs, pX))

\* a step that changes v applies one operand to it, from the left in
\* forward-apply and from the right in adjoint-apply, and nothing is applied
\* after the return
C14_Act ==
    /\ (pc = "prod_matmat" /\ pv' # pv) =>
            \E n \in 1..Len(pMs) : plog' = Append(plog, n) /\ pv' = TMatMul(pMs[n].A, pv)
    /\ (pc = "prod_rmatmat" /\ pv' # pv) =>
            \E n \in 1..Len(pMs) : plog' = Append(plog, n) /\ pv' = TMatMul(pv, pMs[n].A)
    /\ pc \in {"prod_matmat", "prod_rmatmat"} =>
            plog' \in {plog} \cup {Append(plog, n) : n \in 1..Len(pMs)}
    /\ ProdDone => (plog' = plog /\ pv' = pv)

\* C14: forward-apply of Product(M1..Mk) applies Mk first and M1 last,
\* adjoint-apply M1 first and Mk last, each operand exactly once, so that
\* forward-apply returns M1(M2(...(Mk X))) and adjoint-apply
\* (((X M1) M2) ... Mk)
C14_ProductOrder == []C14_Inv /\ [][C14_Act]_vars

\* C14: forward-apply of a Product of three operands of different shapes
\* has returned a nonzero result
C14_Witness ==
    /\ pc = "prod_matmat_done" /\ Len(pMs) = 3 /\ plog = <<3, 2, 1>>
    /\ pMs[1].shape = <<1, 2>> /\ pMs[2].shape = <<2, 2>> /\ pMs[3].shape = <<2, 1>>
    /\ pX.shape = <<1, 2>>
    /\ pv = ForwardNest(pMs, pX)
    /\ \E e \in 1..Len(pv.data) : pv.data[e] # 0

----------------------------------------------------------------------------
(* C15: the shape and the forward-apply of BlockDiag *)

BlockDiagApplied == pc = "applied" /\ okind = "BlockDiag"

\* (sum_i rows_i * mult_i, sum_i cols_i * mult_i), a missing multiplicities
\* argument standing for all ones
BlockDiagShape ==
    LET mult == IF omults = Unset THEN [i \in 1..Len(oargs) |-> 1] ELSE omults
    IN  <<IntSum([i \in 1..Len(oargs) |-> oargs[i].shape[1] * mult[i]]),
          IntSum([i \in 1..Len(oargs) |-> oargs[i].shape[2] * mult[i]])>>

\* the b-th copy, in the order of the operands, gets the b-th block of
\* consecutive input rows and gives the b-th block of output rows
BlockwiseApplied ==
    LET blocks == MsAll(oargs, oself.multiplicities, 1)
    IN  \A b \in 1..Len(blocks) :
            SliceRows(oout, RowOffset(blocks, b), RowOffset(blocks, b + 1))
                = TMatMul(blocks[b],
                          SliceRows(ov, ColOffset(blocks, b), ColOffset(blocks, b + 1)))

\* C15: BlockDiag(M1..Mk, multiplicities) has the shape (sum_i rows_i *
\* mult_i, sum_i cols_i * mult_i); its forward-apply gives each copy of each
\* operand, in order, its block of cols_i consecutive input rows and
\* concatenates the results in the same order, which is the dense
\* block-diagonal matrix times the input, for every batch width and every
\* multiplicity
C15_BlockDiagApply ==
    /\ (pc \in {"constructed", "applied"} /\ okind = "BlockDiag") =>
            oself.shape = BlockDiagShape
    /\ BlockDiagApplied =>
        /\ ~IsErr(oout)
        /\ oout.shape = <<BlockDiagShape[1], ov.shape[2]>>
        /\ BlockwiseApplied
        /\ oout = TMatMul(BlockDiagToDense(oself), ov)

\* C15: two non-square operands of different shapes, the first twice,
\* applied to an input of two columns, the result not zero in its last block
C15_Witness ==
    /\ BlockDiagApplied /\ Len(oargs) = 2 /\ omults = <<2, 1>>
    /\ oargs[1].shape = <<2, 1>> /\ oargs[2].shape = <<1, 2>>
    /\ ov.shape = <<4, 2>>
    /\ oout.shape = <<5, 2>>
    /\ oout = TMatMul(BlockDiagToDense(oself), ov)
    /\ \E e \in 9..10 : oout.data[e] # 0

----------------------------------------------------------------------------
(* C1: gmres on an initial residual within tol *)

\* the solution gmres returned is x0, entry by entry
ReturnedX0 == pc = "gm_done" /\ msoln = [i \in 1..NRows(mx0) |-> mx0[i][1]]

\* C1: whenever the initial residual rhs - A x0 has norm within tol, gmres
\* returns x0 as the solution, for both values of use_householder and of
\* use_triangular
C1_ReturnsX0WithinTol ==
    (pc \in {"gm_done", "gm_raised"} /\ QLe(mbeta, mtol)) => ReturnedX0

----------------------------------------------------------------------------
(* Properties of run_cg_lanczos *)

\* run_cg_lanczos has allocated its arrays
CGRunning == pc \notin {"cg_start", "cg_called"}

\* run_cg_lanczos has returned
CGReturned == pc \in {"cg_returned", "cg_done", "cg_tri_raised"}

\* C11: max_iters is a hard upper bound on the number of executions of the
\* loop body of run_cg_lanczos, whatever the tolerance and the residual
\* norms, also when the norm never drops to the tolerance: the body is never
\* executed more than max_iters times, and the routine returns.
C11_IterationCap ==
    /\ [](CGRunning => ltrips <= lmax_iters)
    /\ <>CGReturned

\* the cap stopped a loop whose residual norm is still above the tolerance,
\* after at least two executions of the body
C11_Witness ==
    /\ pc = "cg_returned"
    /\ SGt(Get(lalpha, lk), ltolerance)
    /\ ltrips = lmax_iters - 1
    /\ ltrips >= 2

\* what holds of k and of the indices once the arrays are allocated
C16_Inv ==
    CGRunning =>
        /\ 0 <= lk /\ lk <= lmax_iters - 1
        /\ lused \subseteq 0..(lmax_iters - 1)
        /\ (CGReturned /\ ~SGt(Get(lalpha, 0), ltolerance)) =>
               (ltrips = 0 /\ lk = 0 /\ Get(lx, 0) = lx0)

\* what a step does to k: only an execution of the loop body changes it, by
\* one
C16_Act ==
    CGRunning =>
        \/ lk' = lk /\ ltrips' = ltrips
        \/ lk' = lk + 1 /\ ltrips' = ltrips + 1

\* C16: for every max_iters >= 1, tolerance and input, in every state of
\* run_cg_lanczos 0 <= k <= max_iters - 1, k only ever increases by one per
\* execution of the loop body, every index used on the preallocated arrays
\* (k - 1, k, k + 1) is within their length max_iters, and when the initial
\* residual norm is not above the tolerance the body never runs and the
\* result is k = 0 with x[:, 0] = x0.
C16_CounterAndIndices == []C16_Inv /\ [][C16_Act]_vars

\* the body has run up to the last column of the arrays, k = max_iters - 1,
\* reading column k - 1 and writing column k
C16_Witness ==
    /\ pc = "cg_loop"
    /\ lk = lmax_iters - 1
    /\ lused = {lk - 1, lk}
    /\ lk >= 2

----------------------------------------------------------------------------
(* Properties of the Lanczos relations test_cg_lanczos asserts *)

\* a scalar that is rational, as a rational of the dense arrays, and back
S2Q(a) == <<a[1], a[2]>>
Q2S(x) == <<x[1], x[2], 1>>
RationalMatrix(M) == [i \in 1..Len(M) |-> [j \in 1..Len(M[i]) |-> S2Q(M[i][j])]]

\* A is symmetric with positive leading principal minors
IsSPD(A) ==
    /\ \A i, j \in 1..Len(A) : A[i][j] = A[j][i]
    /\ \A n \in 1..Len(A) :
        QLt(Zero, Det([i \in 1..n |-> [j \in 1..n |-> S2Q(A[i][j])]]))

\* the loop ended because the residual norm is not above the tolerance
CGConverged == ~SGt(Get(lalpha, lk), ltolerance)

\* Q = q[:, 1:k + 1], a sequence of columns, and approx = x[:, k]
LanczosQ == Slice(lq, 1, lk + 1)
Approx == Get(lx, lk)

\* the sum of the columns cols[i] scaled by c[i]
RECURSIVE Combine(_, _, _)
Combine(cols, c, n) ==
    IF Len(cols) = 0 THEN [i \in 1..n |-> SZero]
    ELSE SVecAdd(SScale(c[1], cols[1]), Combine(Tail(cols), Tail(c), n))

\* the square of the Frobenius norm of a sequence of columns
NormSquared(cols) == SSum([j \in 1..Len(cols) |-> SDot(cols[j], cols[j])])

\* the norm of a sequence of columns is not above the tolerance
WithinTolerance(cols) == ~SGt(SSqrt(NormSquared(cols)), ltolerance)

\* A Q - Q T, Q^T Q - I and approx - soln, soln the solution of A x = rhs
ResidualOfRelation ==
    [j \in 1..Len(LanczosQ) |->
        SVecSub(SMatVec(lA, LanczosQ[j]),
                Combine(LanczosQ, [i \in 1..Len(LanczosQ) |-> lT[i][j]], Len(lA)))]

DefectOfOrthonormality ==
    [j \in 1..Len(LanczosQ) |->
        [i \in 1..Len(LanczosQ) |->
            SSub(SDot(LanczosQ[i], LanczosQ[j]), IF i = j THEN SOne ELSE SZero)]]

ErrorOfApprox ==
    LET soln == Solve(RationalMatrix(lA), [i \in 1..Len(lrhs) |-> <<S2Q(lrhs[i])>>])
    IN  <<[i \in 1..Len(lrhs) |-> SSub(Approx[i], Q2S(soln[i][1]))]>>

\* the test of the relations has ended, for a run to convergence on a
\* symmetric positive-definite A with a positive tolerance
LanczosTested ==
    /\ pc \in {"cg_done", "cg_tri_raised"}
    /\ IsSPD(lA)
    /\ SGt(ltolerance, SZero)
    /\ CGConverged

\* C12: for the recurrence run to convergence on a symmetric
\* positive-definite A, Q = q[:, 1..k] and the tridiagonal T built from the
\* recorded alpha and beta satisfy A Q = Q T and Q^T Q = I within tolerance,
\* the final residual norm is not above the tolerance and the final iterate
\* equals the solution of A x = rhs within tolerance.
C12_LanczosRelations ==
    LanczosTested =>
        /\ pc = "cg_done"
        /\ WithinTolerance(ResidualOfRelation)
        /\ WithinTolerance(DefectOfOrthonormality)
        /\ WithinTolerance(<<Get(lres, lk)>>)
        /\ WithinTolerance(ErrorOfApprox)

====
